---- MODULE Spec2Model ----
(***************************************************************************)
(* CloudSim: storage nodes, replication manager, heartbeat monitor, the    *)
(* in-process coordinator (StorageVirtualNetwork) and the TCP coordinator  *)
(* (DistributedCoordinator), modelled from the Python sources.             *)
(*                                                                         *)
(* Units: storage sizes are counted in units of 256 KiB, bandwidth in      *)
(* bits per second, time in seconds.                                       *)
(***************************************************************************)
EXTENDS Integers, Sequences, FiniteSets, TLC

(***************************************************************************)
(* Bounds of the model                                                     *)
(***************************************************************************)
\* bandwidth argument of StorageVirtualNode.__init__, in Mbps
BandwidthMbps == 100
\* bandwidth of the one peer connection made with add_connection, in Mbps
PeerMbps == 50
\* number of process_chunk_transfer calls started in the node specification
MaxCalls == 4
\* number of threads that call process_chunk_transfer concurrently
NumThreads == 2
\* largest file size that is uploaded, in units of 256 KiB
MaxFileSize == 3
\* last instant of the clock
MaxTime == 70

Nodes == {"n1", "n2", "n3", "n4"}
Files == {"f1", "f2"}
Threads == 1..NumThreads
FileSizes == 1..MaxFileSize
\* the node the node-level specification exercises
TestNode == "n1"
\* sources of a chunk transfer: the client, or the connected peer
Sources == {"client", "peer"}

(***************************************************************************)
(* Configuration defaults (utils/config_loader.py)                         *)
(***************************************************************************)
small_file_threshold == 40
medium_file_threshold == 400
small_chunk_size == 2
medium_chunk_size == 8
large_chunk_size == 40
default_factor == 3
min_factor == 2
failure_timeout == 30
recovery_check_interval == 5
enable_auto_recovery == TRUE
placement_strategy == "diverse"

(***************************************************************************)
(* Generic helpers                                                         *)
(***************************************************************************)
Min(a, b) == IF a <= b THEN a ELSE b

Max(a, b) == IF a >= b THEN a ELSE b

RECURSIVE SumFun(_, _)
\* sum(d.values()) for a dict d whose keys are the set S
SumFun(d, S) ==
  IF S = {} THEN 0
  ELSE LET k == CHOOSE x \in S : TRUE IN d[k] + SumFun(d, S \ {k})

SumValues(d) == SumFun(d, DOMAIN d)

\* the dict d without key k (dict.pop(k, None))
DictPop(d, k) == [x \in (DOMAIN d) \ {k} |-> d[x]]

\* the dict d with d[k] = v
DictSet(d, k, v) == [x \in (DOMAIN d) \cup {k} |-> IF x = k THEN v ELSE d[x]]

(***************************************************************************)
(* StorageVirtualNode (core/storage_node.py)                               *)
(***************************************************************************)
\* self.bandwidth = bandwidth * 1000000
NodeBandwidth == BandwidthMbps * 1000000

\* self.connections after add_connection("peer", PeerMbps)
connections == [p \in {"peer"} |-> PeerMbps * 1000000]

\* total_storage of a node, in units
TotalStorage(n) == IF n = "n4" THEN 2 ELSE 4

CalculateChunkSize(file_size) ==
  IF file_size < small_file_threshold THEN small_chunk_size
  ELSE IF file_size < medium_file_threshold THEN medium_chunk_size
  ELSE large_chunk_size

\* variant: file_size // chunk_size
NumChunksFloor(file_size) ==
  file_size \div CalculateChunkSize(file_size)

\* math.ceil(file_size / chunk_size)
NumChunks(file_size) ==
  (file_size + CalculateChunkSize(file_size) - 1) \div CalculateChunkSize(file_size)

\* the chunks of a new transfer: sizes as cut by _generate_chunks, all PENDING
GenerateChunks(file_size) ==
  [i \in 1..NumChunks(file_size) |->
     [size |-> Min(i * CalculateChunkSize(file_size), file_size)
                 - (i - 1) * CalculateChunkSize(file_size),
      status |-> "PENDING"]]

\* _generate_chunks(file_data, file_id, len(file_data)): chunk i - 1 holds
\* file_data[start:end] (0-based, end excluded) and its checksum is filled
\* in from the data
GenerateChunkData(file_data) ==
  LET file_size == Len(file_data)
      chunk_size == CalculateChunkSize(file_size)
  IN [i \in 1..NumChunks(file_size) |->
        LET start == (i - 1) * chunk_size
            end == Min(start + chunk_size, file_size)
        IN [chunk_id |-> i - 1, size |-> end - start,
            data |-> SubSeq(file_data, start + 1, end)]]

NoTransfer == [total_size |-> 0, status |-> "NONE", chunks |-> <<>>,
               replication_factor |-> 0]

\* a node after __init__
NewNode ==
  [used_storage |-> 0,
   active_transfers |-> {},
   stored_files |-> {},
   transfers |-> [f \in Files |-> NoTransfer],
   active_bandwidth_usage |-> <<>>,
   network_utilization |-> 0]

\* initiate_file_transfer: None (the node unchanged) when the file does not fit
InitiateFits(nd, n, file_size) == nd.used_storage + file_size <= TotalStorage(n)

InitiateFileTransfer(nd, n, f, file_size, replication_factor) ==
  IF ~InitiateFits(nd, n, file_size) THEN nd
  ELSE [nd EXCEPT
          !.transfers[f] = [total_size |-> file_size, status |-> "PENDING",
                            chunks |-> GenerateChunks(file_size),
                            replication_factor |-> replication_factor],
          !.active_transfers = @ \cup {f}]

\* chunk ids are 0-based in the code and index position c + 1 here
HasChunk(nd, f, c) == c + 1 \in DOMAIN nd.transfers[f].chunks

\* min(self.bandwidth - self.network_utilization, connection_bandwidth)
AvailableBandwidth(nd, source_node) ==
  Min(NodeBandwidth - nd.network_utilization,
      IF source_node \in DOMAIN connections THEN connections[source_node]
      ELSE NodeBandwidth)

\* available_bandwidth * 0.8
BandwidthUsed(available_bandwidth) == (available_bandwidth * 4) \div 5

\* lines 271-273: record the reservation, recompute the total
ReserveBandwidth(nd, f, c, available_bandwidth) ==
  LET abu == DictSet(nd.active_bandwidth_usage, <<f, c>>,
                     BandwidthUsed(available_bandwidth))
  IN [nd EXCEPT !.active_bandwidth_usage = abu,
                !.network_utilization = SumValues(abu)]

\* lines 275-277: chunk.status = COMPLETED
MarkChunkCompleted(nd, f, c) ==
  [nd EXCEPT !.transfers[f].chunks[c + 1].status = "COMPLETED"]

AllChunksCompleted(nd, f) ==
  \A i \in DOMAIN nd.transfers[f].chunks :
     nd.transfers[f].chunks[i].status = "COMPLETED"

RECURSIVE PopKeys(_, _, _)
\* lines 302-304: pop the keys f_0 .. f_(k-1)
PopKeys(abu, f, k) ==
  IF k = 0 THEN abu ELSE PopKeys(DictPop(abu, <<f, k - 1>>), f, k - 1)

\* lines 301-305: release the reservations of all chunks of the file
ReleaseFileBandwidth(nd, f) ==
  LET abu == PopKeys(nd.active_bandwidth_usage, f, Len(nd.transfers[f].chunks))
  IN [nd EXCEPT !.active_bandwidth_usage = abu,
                !.network_utilization = SumValues(abu)]

\* lines 288-305.  When the file is no longer in active_transfers,
\* `del self.active_transfers[file_id]` raises KeyError after used_storage
\* and stored_files were updated and before the bandwidth is released.
CompletionRaises(nd, f) == AllChunksCompleted(nd, f) /\ f \notin nd.active_transfers

CompletionCheck(nd, f) ==
  IF ~AllChunksCompleted(nd, f) THEN nd
  ELSE LET stored == [nd EXCEPT !.transfers[f].status = "COMPLETED",
                                !.used_storage = @ + nd.transfers[f].total_size,
                                !.stored_files = @ \cup {f}]
       IN IF f \notin nd.active_transfers THEN stored
          ELSE ReleaseFileBandwidth(
                 [stored EXCEPT !.active_transfers = @ \ {f}], f)

\* complete_chunk_transfer (lines 317-333)
CompleteChunkTransfer(nd, f, c) ==
  IF <<f, c>> \in DOMAIN nd.active_bandwidth_usage
  THEN LET abu == DictPop(nd.active_bandwidth_usage, <<f, c>>)
       IN [nd EXCEPT !.active_bandwidth_usage = abu,
                     !.network_utilization = SumValues(abu)]
  ELSE nd

\* process_chunk_transfer run without interruption: does it return True
ProcessChunkOk(nd, f, c, source_node) ==
  /\ f \in nd.active_transfers
  /\ HasChunk(nd, f, c)
  /\ AvailableBandwidth(nd, source_node) > 0

\* process_chunk_transfer run without interruption: the node afterwards
ProcessChunkTransfer(nd, f, c, source_node) ==
  IF ~ProcessChunkOk(nd, f, c, source_node) THEN nd
  ELSE CompletionCheck(
         MarkChunkCompleted(
           ReserveBandwidth(nd, f, c, AvailableBandwidth(nd, source_node)),
           f, c),
         f)

(***************************************************************************)
(* Sequences and iteration order                                           *)
(***************************************************************************)
SeqToSet(q) == {q[i] : i \in DOMAIN q}

\* all orders in which the node ids can be enumerated
Perms ==
  {p \in [1..Cardinality(Nodes) -> Nodes] : \A n \in Nodes : \E i \in DOMAIN p : p[i] = n}

\* list(S) for a Python set S of node ids: the order is not specified; it is
\* given here by the enumeration order perm
ListOfSet(S, perm) == SelectSeq(perm, LAMBDA x : x \in S)

RECURSIVE InsertDesc(_, _, _)
\* insert x into q, sorted by descending key[x], behind the elements of equal key
InsertDesc(q, x, key) ==
  IF q = <<>> THEN <<x>>
  ELSE IF key[Head(q)] >= key[x] THEN <<Head(q)>> \o InsertDesc(Tail(q), x, key)
       ELSE <<x>> \o q

RECURSIVE SortDesc(_, _)
\* list.sort(key=..., reverse=True): stable, descending
SortDesc(q, key) ==
  IF q = <<>> THEN <<>>
  ELSE InsertDesc(SortDesc(SubSeq(q, 1, Len(q) - 1), key), q[Len(q)], key)

(***************************************************************************)
(* ReplicationManager (replication/replication_manager.py)                 *)
(***************************************************************************)
\* chunk_locations is a dict: keys lists its keys in insertion order
NewReplicationManager ==
  [chunk_locations |-> <<>>, keys |-> <<>>, replication_queue |-> <<>>]

\* variant: registering a replica that is already recorded removes it
RegisterChunkToggles(r, f, c, n) ==
  LET k == <<f, c>> IN
  IF k \in DOMAIN r.chunk_locations
  THEN [r EXCEPT !.chunk_locations[k] = IF n \in @ THEN @ \ {n} ELSE @ \cup {n}]
  ELSE [r EXCEPT !.chunk_locations = DictSet(@, k, {n}),
                 !.keys = Append(@, k)]

RegisterChunk(r, f, c, n) ==
  LET k == <<f, c>> IN
  IF k \in DOMAIN r.chunk_locations
  THEN [r EXCEPT !.chunk_locations[k] = @ \cup {n}]
  ELSE [r EXCEPT !.chunk_locations = DictSet(@, k, {n}),
                 !.keys = Append(@, k)]

\* variant: a chunk that lost its last replica is dropped from the index
UnregisterChunkDropsEmpty(r, f, c, n) ==
  LET k == <<f, c>> IN
  IF k \in DOMAIN r.chunk_locations
  THEN IF r.chunk_locations[k] \ {n} = {}
       THEN [r EXCEPT !.chunk_locations = DictPop(@, k),
                      !.keys = SelectSeq(@, LAMBDA x : x # k)]
       ELSE [r EXCEPT !.chunk_locations[k] = @ \ {n}]
  ELSE r

UnregisterChunk(r, f, c, n) ==
  LET k == <<f, c>> IN
  IF k \in DOMAIN r.chunk_locations
  THEN [r EXCEPT !.chunk_locations[k] = @ \ {n}]
  ELSE r

GetChunkLocations(r, f, c) ==
  IF <<f, c>> \in DOMAIN r.chunk_locations THEN r.chunk_locations[<<f, c>>] ELSE {}

GetReplicationCount(r, f, c) == Cardinality(GetChunkLocations(r, f, c))

IsUnderReplicated(r, f, c) == GetReplicationCount(r, f, c) < min_factor

FindChunksOnNode(r, n) ==
  SelectSeq(r.keys, LAMBDA k : n \in r.chunk_locations[k])

RECURSIVE UnregisterAll(_, _, _, _)
\* the loop of handle_node_failure over chunks_on_node; acc is under_replicated
UnregisterAll(r, chunks, n, acc) ==
  IF chunks = <<>> THEN [rm |-> r, under_replicated |-> acc]
  ELSE LET k == Head(chunks)
           r1 == UnregisterChunk(r, k[1], k[2], n)
       IN IF IsUnderReplicated(r1, k[1], k[2])
          THEN UnregisterAll(
                 [r1 EXCEPT !.replication_queue =
                    Append(@, <<k[1], k[2],
                                default_factor - GetReplicationCount(r1, k[1], k[2])>>)],
                 Tail(chunks), n, Append(acc, k))
          ELSE UnregisterAll(r1, Tail(chunks), n, acc)

\* get_statistics: the counts it computes from the index and the queue
\* (avg_replication_factor is total_replicas / total_chunks)
GetStatistics(r) ==
  [total_chunks |-> Cardinality(DOMAIN r.chunk_locations),
   total_replicas |-> SumFun([k \in DOMAIN r.chunk_locations |->
                                Cardinality(r.chunk_locations[k])],
                             DOMAIN r.chunk_locations),
   under_replicated_chunks |->
      Cardinality({k \in DOMAIN r.chunk_locations :
                     Cardinality(r.chunk_locations[k]) < min_factor}),
   replication_queue_size |-> Len(r.replication_queue)]

\* handle_node_failure that stops after the first chunk of the node
RMHandleNodeFailureFirstChunk(r, n) ==
  UnregisterAll(r, SubSeq(FindChunksOnNode(r, n), 1, Min(1, Len(FindChunksOnNode(r, n)))),
                n, <<>>)

\* ReplicationManager.handle_node_failure: the manager afterwards and the
\* list it returns
RMHandleNodeFailure(r, n) == UnregisterAll(r, FindChunksOnNode(r, n), n, <<>>)

RECURSIVE FillSelected(_, _, _)
\* lines 204-208: fill with the first candidates not yet selected
FillSelected(selected, candidates, count) ==
  IF Len(selected) >= count \/ Len(selected) >= Len(candidates) THEN selected
  ELSE LET rest == SelectSeq(candidates, LAMBDA x : x \notin SeqToSet(selected))
       IN IF rest = <<>> THEN selected
          ELSE FillSelected(Append(selected, Head(rest)), candidates, count)

\* variant: the first count candidates, whatever the step
DiverseSelectFirst(sorted, count) ==
  SubSeq(sorted, 1, Min(count, Len(sorted)))

\* lines 196-201: every step-th candidate, at most count of them
DiverseSelect(sorted, count) ==
  LET step == Max(1, Len(sorted) \div count)
      reach == (Len(sorted) + step - 1) \div step
      first == [i \in 1..Min(count, reach) |-> sorted[(i - 1) * step + 1]]
  IN FillSelected(first, sorted, count)

\* variant: the filter looks at the free space only
SelectReplicaNodesAnyNode(strategy, available_nodes, count, exclude_nodes, chunk_size, free, sample) ==
  LET candidates == SelectSeq(available_nodes, LAMBDA n : free[n] >= chunk_size)
      sorted == SortDesc(candidates, free)
  IN IF Len(candidates) < count THEN candidates
     ELSE IF strategy = "least_loaded" THEN SubSeq(sorted, 1, count)
     ELSE IF strategy = "diverse" THEN DiverseSelect(sorted, count)
     ELSE sample

\* select_replica_nodes; free[n] is total_storage - used_storage of node n,
\* sample is the outcome of random.sample for the random strategy
SelectReplicaNodes(strategy, available_nodes, count, exclude_nodes, chunk_size, free, sample) ==
  LET candidates == SelectSeq(available_nodes,
                      LAMBDA n : n \notin exclude_nodes /\ free[n] >= chunk_size)
      sorted == SortDesc(candidates, free)
  IN IF Len(candidates) < count THEN candidates
     ELSE IF strategy = "least_loaded" THEN SubSeq(sorted, 1, count)
     ELSE IF strategy = "diverse" THEN DiverseSelect(sorted, count)
     ELSE sample

\* lines 160-164: the candidates that survive the filter
SelectCandidates(available_nodes, exclude_nodes, chunk_size, free) ==
  SelectSeq(available_nodes, LAMBDA n : n \notin exclude_nodes /\ free[n] >= chunk_size)

\* line 196: len(candidates) // count raises ZeroDivisionError for count = 0
SelectRaises(strategy, available_nodes, count, exclude_nodes, chunk_size, free) ==
  /\ Len(SelectCandidates(available_nodes, exclude_nodes, chunk_size, free)) >= count
  /\ strategy = "diverse"
  /\ count = 0

\* random.sample(candidates, count): the lists of count distinct candidates
Samples(candidates, count) ==
  {q \in [1..count -> SeqToSet(candidates)] :
     \A i, j \in 1..count : q[i] = q[j] => i = j}

(***************************************************************************)
(* HeartbeatMonitor (monitoring/heartbeat_monitor.py)                      *)
(***************************************************************************)
\* last_heartbeat is a dict: known lists its keys in insertion order;
\* failure_events and recovery_events count the callback invocations per node
NewHeartbeatMonitor ==
  [last_heartbeat |-> <<>>, known |-> <<>>,
   healthy_nodes |-> {}, failed_nodes |-> {},
   total_failures |-> 0, total_recoveries |-> 0,
   failure_events |-> [n \in Nodes |-> 0],
   recovery_events |-> [n \in Nodes |-> 0]]

\* line 166: self.last_heartbeat[node_id] = now
RecordHeartbeat(h, n, t) ==
  IF n \in DOMAIN h.last_heartbeat
  THEN [h EXCEPT !.last_heartbeat[n] = t]
  ELSE [h EXCEPT !.last_heartbeat = DictSet(@, n, t), !.known = Append(@, n)]

\* _mark_node_recovered; the recovery callback only logs
MarkNodeRecovered(h, n) ==
  [h EXCEPT !.failed_nodes = @ \ {n},
            !.healthy_nodes = @ \cup {n},
            !.total_recoveries = @ + 1,
            !.recovery_events[n] = @ + 1]

\* variant: the node is added to failed_nodes and stays in healthy_nodes
MarkNodeFailedKeepsHealthy(h, n) ==
  [h EXCEPT !.failed_nodes = @ \cup {n},
            !.total_failures = @ + 1,
            !.failure_events[n] = @ + 1]

\* _mark_node_failed up to the callback
MarkNodeFailedStatus(h, n) ==
  [h EXCEPT !.healthy_nodes = @ \ {n},
            !.failed_nodes = @ \cup {n},
            !.total_failures = @ + 1,
            !.failure_events[n] = @ + 1]

\* lines 177-182 of receive_heartbeat
HeartbeatStatusUpdate(h, n) ==
  IF n \in h.failed_nodes THEN MarkNodeRecovered(h, n)
  ELSE IF n \notin h.healthy_nodes THEN [h EXCEPT !.healthy_nodes = @ \cup {n}]
  ELSE h

\* receive_heartbeat run without interruption
ReceiveHeartbeat(h, n, t) == HeartbeatStatusUpdate(RecordHeartbeat(h, n, t), n)

\* variant: a node is given one more check interval
TimedOutLate(last_hb, t) == t - last_hb > failure_timeout + recovery_check_interval

\* line 109: time_since_heartbeat > timeout
TimedOut(last_hb, t) == t - last_hb > failure_timeout

(***************************************************************************)
(* StorageVirtualNetwork (core/storage_network.py)                         *)
(* The operators below work on a record S = [svn, rm, hb] holding the      *)
(* nodes, the replication manager and the heartbeat monitor.               *)
(***************************************************************************)
FreeSpace(S) == [n \in Nodes |-> TotalStorage(n) - S.svn[n].used_storage]

\* variant: every registered node, whatever the monitor holds it to be
GetAllNodes(S, perm) == ListOfSet(DOMAIN S.svn, perm)

\* get_healthy_nodes: the registered nodes the monitor holds as healthy
GetHealthyNodes(S, perm) == ListOfSet(S.hb.healthy_nodes, perm)

\* select_target_nodes
SelectTargetNodes(S, file_size, replication_factor, perm) ==
  SelectReplicaNodes(placement_strategy, GetHealthyNodes(S, perm),
                     replication_factor, {}, file_size, FreeSpace(S), <<>>)

RECURSIVE RegisterChunks(_, _, _, _)
\* lines 257-262: register the chunks 0 .. k-1 of the file on the node
RegisterChunks(r, f, k, n) ==
  IF k = 0 THEN r
  ELSE RegisterChunk(RegisterChunks(r, f, k - 1, n), f, k - 1, n)

RECURSIVE InitiateOnTargets(_, _, _, _, _, _)
\* lines 243-262: the loop over target_nodes; acc lists the nodes that
\* accepted the transfer
InitiateOnTargets(S, targets, f, file_size, replication_factor, acc) ==
  IF targets = <<>> THEN [S |-> S, transfers |-> acc]
  ELSE LET n == Head(targets) IN
       IF InitiateFits(S.svn[n], n, file_size)
       THEN InitiateOnTargets(
              [S EXCEPT !.svn[n] = InitiateFileTransfer(@, n, f, file_size,
                                                       replication_factor),
                        !.rm = RegisterChunks(@, f, NumChunks(file_size), n)],
              Tail(targets), f, file_size, replication_factor, Append(acc, n))
       ELSE InitiateOnTargets(S, Tail(targets), f, file_size, replication_factor, acc)

RECURSIVE ProcessPendingChunks(_, _, _, _, _)
\* lines 319-335: process the pending chunks of one node, from chunk id c on;
\* budget is chunks_per_step minus the chunks transferred so far
ProcessPendingChunks(nd, f, c, budget, source_node) ==
  IF ~HasChunk(nd, f, c) THEN nd
  ELSE IF nd.transfers[f].chunks[c + 1].status # "COMPLETED" /\ budget > 0
       THEN ProcessPendingChunks(
              ProcessChunkTransfer(nd, f, c, source_node), f, c + 1,
              IF ProcessChunkOk(nd, f, c, source_node) THEN budget - 1 ELSE budget,
              source_node)
       ELSE ProcessPendingChunks(nd, f, c + 1, budget, source_node)

RECURSIVE ReplicateToTargetsAlways(_, _, _, _, _)
\* variant: every target is registered, whether its transfer succeeded or not
ReplicateToTargetsAlways(S, targets, f, c, source_node_id) ==
  IF targets = <<>> THEN S
  ELSE LET n == Head(targets) IN
       ReplicateToTargetsAlways(
         [S EXCEPT !.svn[n] = ProcessChunkTransfer(@, f, c, source_node_id),
                   !.rm = RegisterChunk(@, f, c, n)],
         Tail(targets), f, c, source_node_id)

RECURSIVE ReplicateToTargets(_, _, _, _, _)
\* lines 440-464: transfer the chunk to each target, register on success
ReplicateToTargets(S, targets, f, c, source_node_id) ==
  IF targets = <<>> THEN S
  ELSE LET n == Head(targets) IN
       ReplicateToTargets(
         IF ProcessChunkOk(S.svn[n], f, c, source_node_id)
         THEN [S EXCEPT !.svn[n] = ProcessChunkTransfer(@, f, c, source_node_id),
                        !.rm = RegisterChunk(@, f, c, n)]
         ELSE S,
         Tail(targets), f, c, source_node_id)

\* _re_replicate_chunk
ReReplicateChunk(S, f, c, failed_node_id, perm) ==
  LET current_locations == GetChunkLocations(S.rm, f, c)
      source_node_id == Head(ListOfSet(current_locations, perm))
      needed == default_factor - Cardinality(current_locations)
  IN IF current_locations = {} THEN S
     ELSE IF f \notin S.svn[source_node_id].stored_files THEN S
     ELSE IF needed <= 0 THEN S
     ELSE ReplicateToTargets(
            S,
            SelectReplicaNodes(placement_strategy, GetHealthyNodes(S, perm), needed,
                               current_locations \cup {failed_node_id},
                               S.svn[source_node_id].transfers[f].chunks[c + 1].size,
                               FreeSpace(S), <<>>),
            f, c, source_node_id)

RECURSIVE ReReplicateAll(_, _, _, _)
\* lines 373-375: the loop over under_replicated
ReReplicateAll(S, chunks, failed_node_id, perm) ==
  IF chunks = <<>> THEN S
  ELSE ReReplicateAll(
         ReReplicateChunk(S, Head(chunks)[1], Head(chunks)[2], failed_node_id, perm),
         Tail(chunks), failed_node_id, perm)

\* StorageVirtualNetwork.handle_node_failure
HandleNodeFailure(S, failed_node_id, perm) ==
  LET res == RMHandleNodeFailure(S.rm, failed_node_id)
      S1 == [S EXCEPT !.rm = res.rm]
  IN IF res.under_replicated = <<>> THEN S1
     ELSE IF enable_auto_recovery
          THEN ReReplicateAll(S1, res.under_replicated, failed_node_id, perm)
          ELSE S1

\* variant: no failure callback is registered
MarkNodeFailedNoCallback(S, n, perm) == [S EXCEPT !.hb = MarkNodeFailedStatus(@, n)]

\* _mark_node_failed with handle_node_failure registered as failure callback
MarkNodeFailed(S, n, perm) ==
  HandleNodeFailure([S EXCEPT !.hb = MarkNodeFailedStatus(@, n)], n, perm)

\* the body of the loop of _check_all_nodes for one entry of the snapshot
CheckNode(S, n, last_hb, t, perm) ==
  IF TimedOut(last_hb, t)
  THEN IF n \notin S.hb.failed_nodes THEN MarkNodeFailed(S, n, perm) ELSE S
  ELSE IF n \in S.hb.failed_nodes THEN [S EXCEPT !.hb = MarkNodeRecovered(@, n)]
       ELSE IF n \notin S.hb.healthy_nodes
            THEN [S EXCEPT !.hb.healthy_nodes = @ \cup {n}]
            ELSE S

RECURSIVE CheckNodes(_, _, _, _, _)
\* _check_all_nodes over the entries todo of the snapshot snap taken at time t
CheckNodes(S, todo, snap, t, perm) ==
  IF todo = <<>> THEN S
  ELSE CheckNodes(CheckNode(S, Head(todo), snap[Head(todo)], t, perm),
                  Tail(todo), snap, t, perm)

\* _check_all_nodes run without interruption at time t
CheckAllNodes(S, t, perm) == CheckNodes(S, S.hb.known, S.hb.last_heartbeat, t, perm)

(***************************************************************************)
(* DistributedCoordinator (distributed/distributed_coordinator.py)         *)
(* The TCP address (host, port) of a node plays no part in any decision    *)
(* of the coordinator and is left out of NodeInfo.                         *)
(***************************************************************************)
heartbeat_timeout == 30

\* NodeInfo(...) as _handle_register_node builds it at time t
NodeInfo(storage_capacity, t) ==
  [storage_capacity |-> storage_capacity, used_storage |-> 0,
   last_heartbeat |-> t, status |-> "HEALTHY"]

\* nodes is a dict: node_ids lists its keys in insertion order
NewCoordinator == [nodes |-> <<>>, node_ids |-> <<>>, file_locations |-> <<>>]

NoReply == [msg_type |-> "none", file_id |-> "f1", nodes |-> <<>>, chunk_id |-> 0,
            checksum |-> 0, size |-> 0, binary_data |-> <<>>, request_id |-> "None"]

NoRequest == [msg_type |-> "none", node_id |-> "n1", storage_capacity |-> 0,
              used_storage |-> 0, file_id |-> "f1", file_size |-> 0,
              replication_factor |-> 0, to |-> "coordinator", chunk_id |-> 0,
              binary_data |-> <<>>, source_node |-> "n1", request_id |-> "None"]

ErrorMessage == [NoReply EXCEPT !.msg_type = "ERROR"]

CoordFree(c, n) == c.nodes[n].storage_capacity - c.nodes[n].used_storage

\* self.nodes[node_id] = NodeInfo(...)
HandleRegisterNode(c, n, storage_capacity, t) ==
  [coord |-> [c EXCEPT !.nodes = DictSet(c.nodes, n, NodeInfo(storage_capacity, t)),
                       !.node_ids = IF n \in DOMAIN c.nodes THEN c.node_ids
                                    ELSE Append(c.node_ids, n)],
   reply |-> [NoReply EXCEPT !.msg_type = "NODE_REGISTERED", !.nodes = <<n>>]]

HandleHeartbeat(c, n, used_storage, t) ==
  [coord |-> IF n \in DOMAIN c.nodes
             THEN [c EXCEPT !.nodes[n].last_heartbeat = t,
                            !.nodes[n].used_storage = used_storage,
                            !.nodes[n].status =
                               IF c.nodes[n].status = "FAILED" THEN "HEALTHY"
                               ELSE c.nodes[n].status]
             ELSE c,
   reply |-> [NoReply EXCEPT !.msg_type = "HEARTBEAT_ACK"]]

\* variant: the nodes with room for file_size, whatever their status
SuitableNodesAnyStatus(c, file_size) ==
  SortDesc(SelectSeq(c.node_ids, LAMBDA n : CoordFree(c, n) >= file_size),
           [n \in DOMAIN c.nodes |-> CoordFree(c, n)])

\* the ids of the HEALTHY nodes with room for file_size, the freest first
SuitableNodes(c, file_size) ==
  SortDesc(SelectSeq(c.node_ids,
                     LAMBDA n : /\ c.nodes[n].status = "HEALTHY"
                                /\ CoordFree(c, n) >= file_size),
           [n \in DOMAIN c.nodes |-> CoordFree(c, n)])

SelectNodesForFile(c, file_size, replication_factor) ==
  LET suitable_nodes == SuitableNodes(c, file_size)
  IN SubSeq(suitable_nodes, 1, Min(replication_factor, Len(suitable_nodes)))

\* _handle_upload_file; the ValueError is turned into an ERROR reply by
\* _handle_message
HandleUploadFile(c, f, file_size, replication_factor) ==
  LET selected_nodes == SelectNodesForFile(c, file_size, replication_factor)
  IN IF Len(selected_nodes) < replication_factor
     THEN [coord |-> c, reply |-> ErrorMessage]
     ELSE [coord |-> [c EXCEPT !.file_locations =
                          DictSet(c.file_locations, f, SeqToSet(selected_nodes))],
           reply |-> [NoReply EXCEPT !.msg_type = "UPLOAD_ACK", !.file_id = f,
                                     !.nodes = selected_nodes]]

\* variant: the first recorded holder is named, whatever its status
HandleDownloadFileAnyHolder(c, f, perm) ==
  IF f \notin DOMAIN c.file_locations
  THEN [coord |-> c, reply |-> ErrorMessage]
  ELSE LET node_ids == ListOfSet(c.file_locations[f], perm)
       IN IF node_ids = <<>>
          THEN [coord |-> c, reply |-> ErrorMessage]
          ELSE [coord |-> c,
                reply |-> [NoReply EXCEPT !.msg_type = "FILE_DATA", !.file_id = f,
                                          !.nodes = <<node_ids[1]>>]]

\* _handle_download_file; list(set) enumerates the holders in the order perm
HandleDownloadFile(c, f, perm) ==
  IF f \notin DOMAIN c.file_locations
  THEN [coord |-> c, reply |-> ErrorMessage]
  ELSE LET node_ids == ListOfSet(c.file_locations[f], perm)
           healthy_nodes ==
             SelectSeq(node_ids, LAMBDA n : /\ n \in DOMAIN c.nodes
                                            /\ c.nodes[n].status = "HEALTHY")
       IN IF healthy_nodes = <<>>
          THEN [coord |-> c, reply |-> ErrorMessage]
          ELSE [coord |-> c,
                reply |-> [NoReply EXCEPT !.msg_type = "FILE_DATA", !.file_id = f,
                                          !.nodes = <<healthy_nodes[1]>>]]

\* one pass of the loop of _monitor_heartbeats at time t
MonitorHeartbeats(c, t) ==
  [c EXCEPT !.nodes =
     [n \in DOMAIN c.nodes |->
        IF /\ t - c.nodes[n].last_heartbeat > heartbeat_timeout
           /\ c.nodes[n].status = "HEALTHY"
        THEN [c.nodes[n] EXCEPT !.status = "FAILED"]
        ELSE c.nodes[n]]]

(***************************************************************************)
(* DistributedStorageNode (distributed/distributed_node.py)                *)
(* Chunk data are byte strings, modelled as sequences of bits.             *)
(***************************************************************************)
DNodes == {"n1", "n2"}

RECURSIVE Sha256(_)
\* hashlib.sha256(data).hexdigest(): a digest that differs for different
\* data; here the number whose ternary digits are 1 followed by bit + 1
Sha256(data) ==
  IF data = <<>> THEN 1
  ELSE 3 * Sha256(SubSeq(data, 1, Len(data) - 1)) + data[Len(data)] + 1

\* a node after __init__
NewDistributedNode == [stored_chunks |-> <<>>, used_storage |-> 0]

\* a chunk recorded with its length in place of its hash
StoredChunkNoHash(chunk_id, chunk_data) ==
  [chunk_id |-> chunk_id, size |-> Len(chunk_data), data |-> chunk_data,
   checksum |-> Len(chunk_data), status |-> "COMPLETED"]

\* FileChunk(chunk_id, size, data, checksum, status=COMPLETED)
StoredChunk(chunk_id, chunk_data) ==
  [chunk_id |-> chunk_id, size |-> Len(chunk_data), data |-> chunk_data,
   checksum |-> Sha256(chunk_data), status |-> "COMPLETED"]

\* _handle_store_chunk; the ValueError for missing data becomes an ERROR
\* reply in _handle_message
HandleStoreChunk(d, f, c, chunk_data) ==
  IF chunk_data = <<>>
  THEN [node |-> d, reply |-> ErrorMessage]
  ELSE [node |-> [d EXCEPT !.stored_chunks =
                              DictSet(@, <<f, c>>, StoredChunk(c, chunk_data)),
                           !.used_storage = @ + Len(chunk_data)],
        reply |-> [NoReply EXCEPT !.msg_type = "SUCCESS", !.file_id = f,
                                  !.chunk_id = c,
                                  !.checksum = Sha256(chunk_data),
                                  !.size = Len(chunk_data)]]

\* _handle_get_chunk
HandleGetChunk(d, f, c) ==
  IF <<f, c>> \notin DOMAIN d.stored_chunks
  THEN [node |-> d, reply |-> ErrorMessage]
  ELSE [node |-> d,
        reply |-> [NoReply EXCEPT !.msg_type = "CHUNK_DATA", !.file_id = f,
                                  !.chunk_id = c,
                                  !.checksum = d.stored_chunks[<<f, c>>].checksum,
                                  !.size = d.stored_chunks[<<f, c>>].size,
                                  !.binary_data = d.stored_chunks[<<f, c>>].data]]

\* _handle_replicate_chunk: acknowledges, reads nothing of the message
HandleReplicateChunk(d) ==
  [node |-> d, reply |-> [NoReply EXCEPT !.msg_type = "SUCCESS"]]

(***************************************************************************)
(* Stored files with their contents and StorageVirtualNode.retrieve_file   *)
(* (core/storage_node.py, core/data_structures.py)                         *)
(***************************************************************************)
\* storage.verify_on_read
verify_on_read == TRUE

\* FileChunk.compute_checksum with the configured algorithm
ComputeChecksum(data) == Sha256(data)

\* FileChunk.verify_integrity
VerifyIntegrity(chunk) == ComputeChecksum(chunk.data) = chunk.checksum

\* FileTransfer.verify_all_chunks
VerifyAllChunks(transfer) ==
  \A i \in DOMAIN transfer.chunks : VerifyIntegrity(transfer.chunks[i])

\* the transfer _generate_chunks builds when the file is cut into the chunk
\* contents datas, as process_chunk_transfer leaves it in stored_files
StoredTransfer(datas) ==
  [total_size |-> SumFun([i \in DOMAIN datas |-> Len(datas[i])], DOMAIN datas),
   chunks |-> [i \in DOMAIN datas |->
                 [chunk_id |-> i - 1, size |-> Len(datas[i]), data |-> datas[i],
                  checksum |-> ComputeChecksum(datas[i])]]]

\* what retrieve_file returns when it returns None
NoneTransfer == [is_none |-> TRUE, total_size |-> 0, chunks |-> <<>>]

\* the retrieval transfer built from a stored transfer
RetrievalCopy(transfer, destination_node) ==
  [is_none |-> FALSE, total_size |-> transfer.total_size,
   chunks |-> [i \in DOMAIN transfer.chunks |->
                 [chunk_id |-> transfer.chunks[i].chunk_id,
                  size |-> transfer.chunks[i].size,
                  data |-> transfer.chunks[i].data,
                  checksum |-> transfer.chunks[i].checksum,
                  stored_nodes |-> {destination_node}]]]

\* retrieve_file that skips the integrity check
RetrieveFileUnverified(stored_files, f, destination_node) ==
  IF f \notin DOMAIN stored_files THEN NoneTransfer
  ELSE RetrievalCopy(stored_files[f], destination_node)

\* retrieve_file: the returned transfer (the stored files are not written)
RetrieveFile(stored_files, f, destination_node) ==
  IF f \notin DOMAIN stored_files THEN NoneTransfer
  ELSE IF verify_on_read /\ ~VerifyAllChunks(stored_files[f]) THEN NoneTransfer
  ELSE RetrievalCopy(stored_files[f], destination_node)

(***************************************************************************)
(* ProtocolHandler (network/protocol.py).  The socket carries units: a     *)
(* length field (4 bytes, struct '>I') is one unit holding its number, a   *)
(* byte of the JSON text or of the binary data is one unit; lengths count  *)
(* units.                                                                  *)
(***************************************************************************)
\* MAX_MESSAGE_SIZE, scaled
MaxMessageSize == 3

\* the two messages of the model: a heartbeat without sender and request id,
\* and a chunk to store that names both
HeartbeatMessage ==
  [msg_type |-> "HEARTBEAT", data |-> "{}", sender_id |-> "None", request_id |-> "None"]

StoreChunkMessage ==
  [msg_type |-> "STORE_CHUNK", data |-> "{chunk_id: 0}", sender_id |-> "client",
   request_id |-> "r1"]

\* what Message.from_json yields when it raises
FromJsonRaises(exception) ==
  [raised |-> exception, msg_type |-> "none", data |-> "none", sender_id |-> "None",
   request_id |-> "None"]

\* the message that from_dict builds from the parsed text
FromDict(message) ==
  [raised |-> "none", msg_type |-> message.msg_type, data |-> message.data,
   sender_id |-> message.sender_id, request_id |-> message.request_id]

\* Message.from_json that accepts a msg_type outside MessageType
FromJsonAnyType(text) ==
  IF text = <<1>> THEN FromDict(HeartbeatMessage)
  ELSE IF text = <<1, 2>> THEN FromDict(StoreChunkMessage)
  ELSE IF text = <<2>> THEN FromDict([HeartbeatMessage EXCEPT !.msg_type = "UNKNOWN"])
  ELSE FromJsonRaises("JSONDecodeError")

\* Message.from_json(json_bytes.decode('utf-8')): the text <<1>> is the
\* heartbeat message, <<1, 2>> the chunk message, <<2>> a JSON object
\* whose msg_type is no MessageType, every other text is not JSON
FromJson(text) ==
  IF text = <<1>> THEN FromDict(HeartbeatMessage)
  ELSE IF text = <<1, 2>> THEN FromDict(StoreChunkMessage)
  ELSE IF text = <<2>> THEN FromJsonRaises("ValueError")
  ELSE FromJsonRaises("JSONDecodeError")

\* message.to_json().encode('utf-8'): the text of each of the two messages
ToJson(message) ==
  IF message = HeartbeatMessage THEN <<1>> ELSE <<1, 2>>

\* encode_message whose first length field leaves out the JSON length field
EncodeMessageShortTotal(message, binary_data) ==
  LET json_bytes == ToJson(message)
      json_length == Len(json_bytes)
      binary_length == Len(binary_data)
      total_length == json_length + binary_length
  IN <<total_length, json_length>> \o json_bytes \o binary_data

\* encode_message(message, binary_data): the frame; binary_data <<>> is None
\* or b'', which take the same branch
EncodeMessage(message, binary_data) ==
  LET json_bytes == ToJson(message)
      json_length == Len(json_bytes)
      binary_length == Len(binary_data)
      total_length == 1 + json_length + binary_length
  IN IF binary_data # <<>>
     THEN <<total_length, json_length>> \o json_bytes \o binary_data
     ELSE <<total_length, json_length>> \o json_bytes

\* what decode_message yields when it raises
DecodeRaises(exception) ==
  [raised |-> exception, msg_type |-> "none", data |-> "none", sender_id |-> "None",
   request_id |-> "None", binary_data |-> <<>>]

\* decode_message(data): the message and its binary data, or the exception;
\* binary_data <<>> is None
DecodeMessage(data) ==
  IF Len(data) < 1 THEN DecodeRaises("ValueError")
  ELSE LET total_length == data[1]
           payload == SubSeq(data, 2, Min(Len(data), 1 + total_length))
       IN IF total_length > MaxMessageSize THEN DecodeRaises("ValueError")
          ELSE IF Len(payload) < 1 THEN DecodeRaises("ValueError")
          ELSE LET json_length == payload[1]
                   json_end == 1 + json_length
                   message == FromJson(SubSeq(payload, 2, Min(Len(payload), json_end)))
               IN IF json_length > total_length - 1 THEN DecodeRaises("ValueError")
                  ELSE IF message.raised # "none" THEN DecodeRaises(message.raised)
                  ELSE [raised |-> "none", msg_type |-> message.msg_type,
                        data |-> message.data, sender_id |-> message.sender_id,
                        request_id |-> message.request_id,
                        binary_data |-> IF json_end < Len(payload)
                                        THEN SubSeq(payload, json_end + 1, Len(payload))
                                        ELSE <<>>]

\* a connection just accepted, on which the client sends wire and then closes
NewConnection(wire) ==
  [wire |-> wire, pc |-> "header", header |-> 0, body |-> <<>>, handled |-> <<>>]

(***************************************************************************)
(* State                                                                   *)
(***************************************************************************)
VARIABLES
  svn,      \* node id -> StorageVirtualNode
  thr,      \* thread -> position inside process_chunk_transfer and its locals
  calls,    \* number of process_chunk_transfer calls started
  rm,       \* the ReplicationManager
  hb,       \* the HeartbeatMonitor
  net,      \* StorageVirtualNetwork: transfer_operations, completed_transfers
  now,      \* the clock (datetime.now(), time.time())
  ret,      \* the last call on the network or the manager and what it
            \* returned; seq is the number of such calls so far, modulo 2
  chk,      \* the monitor thread: its position inside _check_all_nodes
  rh,       \* node id -> position of its heartbeat thread in receive_heartbeat
  coord,    \* the DistributedCoordinator: nodes, file_locations
  request,  \* the message the coordinator has received and not yet answered
  reply,    \* the message the coordinator sent last
  sel,      \* the last select_replica_nodes call: its arguments and outcome
  dn,       \* node id -> DistributedStorageNode: stored_chunks, used_storage
  sfiles,   \* stored_files of the test node with the contents of the chunks
  retr,     \* the last retrieve_file call on the test node and its result
  rcv,      \* thread -> position inside receive_heartbeat and its locals, for
            \* threads that deliver heartbeats of any node
  gen,      \* the last _generate_chunks call: the file data and the chunks
  conn      \* a client connection of a NetworkServer: what is still to arrive
            \* on the socket, the position of _handle_client, what it has read
            \* and the messages it has passed to the handler

vars == <<svn, thr, calls, rm, hb, net, now, ret, chk, rh, coord, request, reply, sel, dn, sfiles, retr, rcv, conn, gen>>

\* the record the network operators work on
Sys == [svn |-> svn, rm |-> rm, hb |-> hb]

IdleThread == [pc |-> "idle", file_id |-> "f1", chunk_id |-> 0,
               available_bandwidth |-> 0, result |-> "none"]

NewNetwork == [transfer_operations |-> <<>>, completed_transfers |-> {}]

NoCall == [op |-> "none", file_id |-> "f1", node_id |-> "n1", file_size |-> 0,
           replication_factor |-> 0, result |-> "none", list |-> <<>>,
           seq |-> 0, chunk_id |-> 0]

\* no select_replica_nodes call yet
NoSelect == [pc |-> "idle", strategy |-> "none", available_nodes |-> <<>>, count |-> 0,
             exclude_nodes |-> {}, chunk_size |-> 0, free |-> <<>>,
             result |-> <<>>, raised |-> "none"]

\* the monitor thread between two passes of its loop
NoRetrieve == [pc |-> "idle", file_id |-> "f1", destination_node |-> "n2",
               result |-> NoneTransfer, seq |-> 0]

NoGenerate == [pc |-> "idle", file_data |-> <<>>, chunks |-> <<>>]

IdleCheck == [pc |-> "idle", tick_now |-> 0, snap |-> <<>>, todo |-> <<>>]

IdleHeartbeat == [n \in Nodes |-> "idle"]

IdleReceivers == [t \in Threads |-> [pc |-> "idle", node_id |-> "n1", now |-> 0]]

InitNodes ==
  /\ svn = [n \in Nodes |-> NewNode]
  /\ thr = [t \in Threads |-> IdleThread]
  /\ calls = 0
  /\ rm = NewReplicationManager
  /\ hb = NewHeartbeatMonitor
  /\ net = NewNetwork
  /\ now = 0
  /\ ret = NoCall
  /\ chk = IdleCheck
  /\ rh = IdleHeartbeat
  /\ coord = NewCoordinator
  /\ request = NoRequest
  /\ reply = NoReply
  /\ sel = NoSelect
  /\ dn = [n \in DNodes |-> NewDistributedNode]
  /\ sfiles = <<>>
  /\ retr = NoRetrieve
  /\ rcv = IdleReceivers
  /\ gen = NoGenerate
  /\ conn = NewConnection(<<>>)

(***************************************************************************)
(* Node specification: one node, concurrent process_chunk_transfer calls   *)
(***************************************************************************)
\* initiate_file_transfer(file_id, file_data) on the node
NodeInitiate(f, file_size) ==
  /\ f \notin svn[TestNode].active_transfers \cup svn[TestNode].stored_files
  /\ svn' = [svn EXCEPT ![TestNode] = InitiateFileTransfer(@, TestNode, f, file_size, default_factor)]
  /\ UNCHANGED <<thr, calls, rm, hb, net, now, ret, chk, rh, coord, request, reply, sel, dn, sfiles, retr, rcv, conn, gen>>

\* lines 215-254: look the chunk up, read the available bandwidth
PctBegin(t, f, c, source_node) ==
  /\ thr[t].pc = "idle"
  /\ calls < MaxCalls
  /\ calls' = calls + 1
  /\ IF ProcessChunkOk(svn[TestNode], f, c, source_node)
     THEN thr' = [thr EXCEPT ![t] =
                    [pc |-> "sleep", file_id |-> f, chunk_id |-> c,
                     available_bandwidth |->
                        AvailableBandwidth(svn[TestNode], source_node),
                     result |-> "none"]]
     ELSE thr' = [thr EXCEPT ![t] =
                    [pc |-> "idle", file_id |-> f, chunk_id |-> c,
                     available_bandwidth |-> 0, result |-> "False"]]
  /\ UNCHANGED <<svn, rm, hb, net, now, ret, chk, rh, coord, request, reply, sel, dn, sfiles, retr, rcv, conn, gen>>

\* lines 265-273: after the simulated delay, record the reservation
PctReserve(t) ==
  /\ thr[t].pc = "sleep"
  /\ svn' = [svn EXCEPT ![TestNode] =
               ReserveBandwidth(@, thr[t].file_id, thr[t].chunk_id,
                                thr[t].available_bandwidth)]
  /\ thr' = [thr EXCEPT ![t].pc = "mark"]
  /\ UNCHANGED <<calls, rm, hb, net, now, ret, chk, rh, coord, request, reply, sel, dn, sfiles, retr, rcv, conn, gen>>

\* lines 275-280: mark the chunk completed
PctMark(t) ==
  /\ thr[t].pc = "mark"
  /\ svn' = [svn EXCEPT ![TestNode] =
               MarkChunkCompleted(@, thr[t].file_id, thr[t].chunk_id)]
  /\ thr' = [thr EXCEPT ![t].pc = "finish"]
  /\ UNCHANGED <<calls, rm, hb, net, now, ret, chk, rh, coord, request, reply, sel, dn, sfiles, retr, rcv, conn, gen>>

\* lines 287-315: completion check under transfer_lock, then return
PctFinish(t) ==
  /\ thr[t].pc = "finish"
  /\ svn' = [svn EXCEPT ![TestNode] = CompletionCheck(@, thr[t].file_id)]
  /\ thr' = [thr EXCEPT ![t].pc = "idle",
                        ![t].result =
                           IF CompletionRaises(svn[TestNode], thr[t].file_id)
                           THEN "KeyError" ELSE "True"]
  /\ UNCHANGED <<calls, rm, hb, net, now, ret, chk, rh, coord, request, reply, sel, dn, sfiles, retr, rcv, conn, gen>>

NextNode ==
  \/ \E f \in Files, s \in FileSizes : NodeInitiate(f, s)
  \/ \E t \in Threads, f \in Files, c \in 0..1, src \in Sources :
        PctBegin(t, f, c, src)
  \/ \E t \in Threads : PctReserve(t)
  \/ \E t \in Threads : PctMark(t)
  \/ \E t \in Threads : PctFinish(t)

SpecNode == InitNodes /\ [][NextNode]_vars

(***************************************************************************)
(* Network specification: the StorageVirtualNetwork with its nodes, its    *)
(* replication manager and its heartbeat monitor; every call runs without  *)
(* interruption                                                            *)
(***************************************************************************)
\* largest replication_factor asked for in an upload
MaxFactor == 3

\* the files uploaded through the network
NetFiles == {"f1"}

\* last instant of the clock in the network specification
NetMaxTime == 35

\* the cluster after add_node for every node and their first heartbeats
InitNet ==
  /\ svn = [n \in Nodes |-> NewNode]
  /\ thr = [t \in Threads |-> IdleThread]
  /\ calls = 0
  /\ rm = NewReplicationManager
  /\ hb = [NewHeartbeatMonitor EXCEPT
             !.last_heartbeat = [n \in Nodes |-> 0],
             !.known = <<"n1", "n2", "n3", "n4">>,
             !.healthy_nodes = Nodes]
  /\ net = NewNetwork
  /\ now = 0
  /\ ret = NoCall
  /\ chk = IdleCheck
  /\ rh = IdleHeartbeat
  /\ coord = NewCoordinator
  /\ request = NoRequest
  /\ reply = NoReply
  /\ sel = NoSelect
  /\ dn = [n \in DNodes |-> NewDistributedNode]
  /\ sfiles = <<>>
  /\ retr = NoRetrieve
  /\ rcv = IdleReceivers
  /\ gen = NoGenerate
  /\ conn = NewConnection(<<>>)

\* a file id that no upload has used yet
FreshFile(f) ==
  /\ f \notin DOMAIN net.transfer_operations
  /\ f \notin net.completed_transfers
  /\ \A k \in DOMAIN rm.chunk_locations : k[1] # f

\* initiate_file_transfer_with_replication(file_name, file_data, replication_factor)
NetUpload(f, file_size, replication_factor, perm) ==
  LET targets == SelectTargetNodes(Sys, file_size, replication_factor, perm)
      res == InitiateOnTargets(Sys, targets, f, file_size, replication_factor, <<>>)
      ok == targets # <<>> /\ res.transfers # <<>>
  IN /\ FreshFile(f)
     /\ svn' = IF targets = <<>> THEN svn ELSE res.S.svn
     /\ rm' = IF targets = <<>> THEN rm ELSE res.S.rm
     /\ net' = IF ok
               THEN [net EXCEPT !.transfer_operations = DictSet(@, f, SeqToSet(res.transfers))]
               ELSE net
     /\ ret' = [NoCall EXCEPT !.seq = 1 - ret.seq, !.op = "upload", !.file_id = f,
                               !.file_size = file_size,
                               !.replication_factor = replication_factor,
                               !.result = IF ok THEN "file_id" ELSE "None"]
     /\ UNCHANGED <<thr, calls, hb, now, chk, rh, coord, request, reply, sel, dn, sfiles, retr, rcv, conn, gen>>

\* process_file_transfer(file_id, chunks_per_step) for an active transfer
NetProcessFileTransfer(f, chunks_per_step) ==
  /\ f \in DOMAIN net.transfer_operations
  /\ LET node_transfers == net.transfer_operations[f]
         svn1 == [n \in Nodes |->
                    IF n \in node_transfers
                    THEN ProcessPendingChunks(svn[n], f, 0, chunks_per_step, "client")
                    ELSE svn[n]]
         all_nodes_complete ==
            \A n \in node_transfers : svn1[n].transfers[f].status = "COMPLETED"
     IN /\ svn' = svn1
        /\ net' = IF all_nodes_complete
                  THEN [net EXCEPT !.transfer_operations = DictPop(@, f),
                                   !.completed_transfers = @ \cup {f}]
                  ELSE net
        /\ ret' = [NoCall EXCEPT !.seq = 1 - ret.seq, !.op = "process", !.file_id = f,
                                  !.result = IF all_nodes_complete THEN "True"
                                             ELSE "False"]
  /\ UNCHANGED <<thr, calls, rm, hb, now, chk, rh, coord, request, reply, sel, dn, sfiles, retr, rcv, conn, gen>>

\* a heartbeat of node n reaches HeartbeatMonitor.receive_heartbeat
NetReceiveHeartbeat(n) ==
  /\ hb' = ReceiveHeartbeat(hb, n, now)
  /\ hb' # hb
  /\ UNCHANGED <<svn, thr, calls, rm, net, now, ret, chk, rh, coord, request, reply, sel, dn, sfiles, retr, rcv, conn, gen>>

\* one pass of the monitor loop: _check_all_nodes
NetCheckAllNodes(perm) ==
  LET S == CheckAllNodes(Sys, now, perm)
  IN /\ S # Sys
     /\ svn' = S.svn
     /\ rm' = S.rm
     /\ hb' = S.hb
     /\ UNCHANGED <<thr, calls, net, now, ret, chk, rh, coord, request, reply, sel, dn, sfiles, retr, rcv, conn, gen>>

\* time passes, up to the instant limit
AdvanceClock(d, limit) ==
  /\ now + d <= limit
  /\ now' = now + d
  /\ UNCHANGED <<svn, thr, calls, rm, hb, net, ret, chk, rh, coord, request, reply, sel, dn, sfiles, retr, rcv, conn, gen>>

NextNet ==
  \/ \E f \in NetFiles, s \in FileSizes, r \in 1..MaxFactor, perm \in Perms :
        NetUpload(f, s, r, perm)
  \/ \E f \in NetFiles, cps \in 1..2 : NetProcessFileTransfer(f, cps)
  \/ \E n \in Nodes : NetReceiveHeartbeat(n)
  \/ \E perm \in Perms : NetCheckAllNodes(perm)
  \/ AdvanceClock(failure_timeout + recovery_check_interval, NetMaxTime)

SpecNet == InitNet /\ [][NextNet]_vars

(***************************************************************************)
(* Replication manager specification: register_chunk, unregister_chunk     *)
(* and handle_node_failure called directly on a ReplicationManager         *)
(***************************************************************************)
\* longest replication_queue
MaxQueue == 2

\* the nodes chunks are registered on
RMNodes == {"n1", "n2", "n3"}

RmRegister(f, c, n) ==
  /\ rm' = RegisterChunk(rm, f, c, n)
  /\ rm' # rm
  /\ UNCHANGED <<svn, thr, calls, hb, net, now, ret, chk, rh, coord, request, reply, sel, dn, sfiles, retr, rcv, conn, gen>>

RmUnregister(f, c, n) ==
  /\ rm' = UnregisterChunk(rm, f, c, n)
  /\ rm' # rm
  /\ UNCHANGED <<svn, thr, calls, hb, net, now, ret, chk, rh, coord, request, reply, sel, dn, sfiles, retr, rcv, conn, gen>>

\* handle_node_failure(n); ret.list is the list it returns
RmHandleNodeFailure(n) ==
  LET res == RMHandleNodeFailure(rm, n)
  IN /\ Len(res.rm.replication_queue) <= MaxQueue
     /\ rm' = res.rm
     /\ ret' = [NoCall EXCEPT !.seq = 1 - ret.seq, !.op = "handle_node_failure", !.node_id = n,
                               !.list = res.under_replicated]
     /\ UNCHANGED <<svn, thr, calls, hb, net, now, chk, rh, coord, request, reply, sel, dn, sfiles, retr, rcv, conn, gen>>

NextRM ==
  \/ \E f \in NetFiles, c \in 0..1, n \in RMNodes : RmRegister(f, c, n)
  \/ \E f \in NetFiles, c \in 0..1, n \in RMNodes : RmUnregister(f, c, n)
  \/ \E n \in RMNodes : RmHandleNodeFailure(n)

SpecRM == InitNodes /\ [][NextRM]_vars

(***************************************************************************)
(* Heartbeat monitor specification: the monitor thread runs                *)
(* _check_all_nodes while the heartbeat threads of the nodes run           *)
(* receive_heartbeat; HeartbeatMonitor takes no lock                       *)
(***************************************************************************)
\* the nodes that send heartbeats
HBNodes == {"n1", "n2"}

\* an enumeration order for the sets the failure callback lists
SomeOrder == CHOOSE p \in Perms : TRUE

\* lines 162-175: record the timestamp
RhRecord(n) ==
  /\ rh[n] = "idle"
  /\ hb' = RecordHeartbeat(hb, n, now)
  /\ rh' = [rh EXCEPT ![n] = "test_failed"]
  /\ UNCHANGED <<svn, thr, calls, rm, net, now, ret, chk, coord, request, reply, sel, dn, sfiles, retr, rcv, conn, gen>>

\* line 178: if node_id in self.failed_nodes
RhTestFailed(n) ==
  /\ rh[n] = "test_failed"
  /\ rh' = [rh EXCEPT ![n] = IF n \in hb.failed_nodes THEN "recover"
                             ELSE "test_healthy"]
  /\ UNCHANGED <<svn, thr, calls, rm, hb, net, now, ret, chk, coord, request, reply, sel, dn, sfiles, retr, rcv, conn, gen>>

\* line 179: self._mark_node_recovered(node_id), then return
RhRecover(n) ==
  /\ rh[n] = "recover"
  /\ hb' = MarkNodeRecovered(hb, n)
  /\ rh' = [rh EXCEPT ![n] = "idle"]
  /\ UNCHANGED <<svn, thr, calls, rm, net, now, ret, chk, coord, request, reply, sel, dn, sfiles, retr, rcv, conn, gen>>

\* lines 180-181: elif node_id not in self.healthy_nodes: add; then return
RhTestHealthy(n) ==
  /\ rh[n] = "test_healthy"
  /\ hb' = IF n \notin hb.healthy_nodes
           THEN [hb EXCEPT !.healthy_nodes = @ \cup {n}] ELSE hb
  /\ rh' = [rh EXCEPT ![n] = "idle"]
  /\ UNCHANGED <<svn, thr, calls, rm, net, now, ret, chk, coord, request, reply, sel, dn, sfiles, retr, rcv, conn, gen>>

\* lines 101-105: read the clock, copy the timestamps
ChkStart ==
  /\ chk.pc = "idle"
  /\ chk' = [pc |-> "loop", tick_now |-> now, snap |-> hb.last_heartbeat,
             todo |-> hb.known]
  /\ UNCHANGED <<svn, thr, calls, rm, hb, net, now, ret, rh, coord, request, reply, sel, dn, sfiles, retr, rcv, conn, gen>>

\* lines 105-118: one iteration of the loop
ChkNode ==
  /\ chk.pc = "loop"
  /\ chk.todo # <<>>
  /\ LET n == Head(chk.todo)
         S == CheckNode(Sys, n, chk.snap[n], chk.tick_now, SomeOrder)
     IN /\ svn' = S.svn
        /\ rm' = S.rm
        /\ hb' = S.hb
  /\ chk' = [chk EXCEPT !.todo = Tail(@)]
  /\ UNCHANGED <<thr, calls, net, now, ret, rh, coord, request, reply, sel, dn, sfiles, retr, rcv, conn, gen>>

\* the loop is over; the thread sleeps until the next pass
ChkDone ==
  /\ chk.pc = "loop"
  /\ chk.todo = <<>>
  /\ chk' = IdleCheck
  /\ UNCHANGED <<svn, thr, calls, rm, hb, net, now, ret, rh, coord, request, reply, sel, dn, sfiles, retr, rcv, conn, gen>>

NextHB ==
  \/ \E n \in HBNodes : RhRecord(n)
  \/ \E n \in HBNodes : RhTestFailed(n)
  \/ \E n \in HBNodes : RhRecover(n)
  \/ \E n \in HBNodes : RhTestHealthy(n)
  \/ ChkStart
  \/ ChkNode
  \/ ChkDone
  \/ \E d \in {failure_timeout, failure_timeout + recovery_check_interval} :
        AdvanceClock(d, MaxTime)

SpecHB == InitNodes /\ [][NextHB]_vars

(***************************************************************************)
(* Specification of the DistributedCoordinator: a client's message is      *)
(* received by the server, _handle_message answers it, the monitor loop    *)
(* runs beside it.  One message is in flight at a time; each handler holds *)
(* the lock of what it reads and writes.                                   *)
(***************************************************************************)
\* largest replication factor an UPLOAD_FILE message asks for
CoordMaxFactor == 3
\* last instant of the clock in this specification
CoordMaxTime == 35

CoordNodes == {"n1", "n2", "n3"}
CoordFiles == {"f1"}
\* all orders in which a set of these node ids can be enumerated
CoordPerms ==
  {p \in [1..Cardinality(CoordNodes) -> CoordNodes] :
     \A n \in CoordNodes : \E i \in DOMAIN p : p[i] = n}
\* the used_storage values a node reports in its heartbeats
UsedStorages(n) == {0, TotalStorage(n) \div 2}

\* the messages the clients and the storage nodes send
Requests ==
  {[NoRequest EXCEPT !.msg_type = "REGISTER_NODE", !.node_id = n,
                     !.storage_capacity = TotalStorage(n)] : n \in CoordNodes}
  \cup UNION {{[NoRequest EXCEPT !.msg_type = "HEARTBEAT", !.node_id = n,
                                 !.used_storage = u] : u \in UsedStorages(n)}
              : n \in CoordNodes}
  \cup {[NoRequest EXCEPT !.msg_type = "UPLOAD_FILE", !.file_id = x[1],
                          !.file_size = x[2], !.replication_factor = x[3]]
        : x \in CoordFiles \X FileSizes \X (1..CoordMaxFactor)}
  \cup {[NoRequest EXCEPT !.msg_type = "DOWNLOAD_FILE", !.file_id = f]
        : f \in CoordFiles}

CoordOthers == <<svn, thr, calls, rm, hb, net, ret, chk, rh, sel, dn, sfiles, retr, rcv, conn, gen>>

\* the server receives a message from a client connection
ReceiveMessage(m) ==
  /\ request = NoRequest
  /\ request' = m
  /\ reply' = NoReply
  /\ UNCHANGED <<coord, now, CoordOthers>>

\* _handle_message on the received message
HandleMessage(perm) ==
  /\ request # NoRequest
  /\ LET out == IF request.msg_type = "REGISTER_NODE"
                THEN HandleRegisterNode(coord, request.node_id,
                                        request.storage_capacity, now)
                ELSE IF request.msg_type = "HEARTBEAT"
                THEN HandleHeartbeat(coord, request.node_id,
                                     request.used_storage, now)
                ELSE IF request.msg_type = "UPLOAD_FILE"
                THEN HandleUploadFile(coord, request.file_id, request.file_size,
                                      request.replication_factor)
                ELSE HandleDownloadFile(coord, request.file_id, perm)
     IN /\ coord' = out.coord
        /\ reply' = out.reply
  /\ request' = NoRequest
  /\ UNCHANGED <<now, CoordOthers>>

CoordMonitorHeartbeats ==
  /\ coord' = MonitorHeartbeats(coord, now)
  /\ coord' # coord
  /\ UNCHANGED <<request, reply, now, CoordOthers>>

CoordAdvanceClock ==
  /\ now + heartbeat_timeout + recovery_check_interval <= CoordMaxTime
  /\ now' = now + heartbeat_timeout + recovery_check_interval
  /\ UNCHANGED <<coord, request, reply, CoordOthers>>

NextCoord ==
  \/ \E m \in Requests : ReceiveMessage(m)
  \/ \E perm \in CoordPerms : HandleMessage(perm)
  \/ CoordMonitorHeartbeats
  \/ CoordAdvanceClock

SpecCoord == InitNodes /\ [][NextCoord]_vars

(***************************************************************************)
(* Specification of select_replica_nodes: one call with any strategy, pool  *)
(* of distinct nodes, count, exclusion set, chunk size and fill of the     *)
(* nodes                                                                   *)
(***************************************************************************)
\* largest number of replicas asked for
MaxCount == 3

Strategies == {"random", "least_loaded", "diverse", "round_robin"}
\* the pools: the lists of distinct nodes
Pools == UNION {{ListOfSet(S, perm) : perm \in Perms} : S \in SUBSET Nodes}
SelExcludes == SUBSET {"n1", "n2"}
SelChunkSizes == {1, 3}
\* used_storage of the nodes of the pool
SelUsed == [Nodes -> {0, 2}]

\* select_replica_nodes is about to be called with these arguments
InitSel ==
  /\ svn = [n \in Nodes |-> NewNode]
  /\ thr = [t \in Threads |-> IdleThread]
  /\ calls = 0
  /\ rm = NewReplicationManager
  /\ hb = NewHeartbeatMonitor
  /\ net = NewNetwork
  /\ now = 0
  /\ ret = NoCall
  /\ chk = IdleCheck
  /\ rh = IdleHeartbeat
  /\ coord = NewCoordinator
  /\ request = NoRequest
  /\ reply = NoReply
  /\ dn = [n \in DNodes |-> NewDistributedNode]
  /\ sfiles = <<>>
  /\ retr = NoRetrieve
  /\ rcv = IdleReceivers
  /\ gen = NoGenerate
  /\ conn = NewConnection(<<>>)
  /\ \E strategy \in Strategies, available_nodes \in Pools, count \in 0..MaxCount,
        exclude_nodes \in SelExcludes, chunk_size \in SelChunkSizes, used \in SelUsed :
        sel = [NoSelect EXCEPT !.pc = "call", !.strategy = strategy,
                               !.available_nodes = available_nodes,
                               !.count = count, !.exclude_nodes = exclude_nodes,
                               !.chunk_size = chunk_size,
                               !.free = [n \in Nodes |-> TotalStorage(n) - used[n]]]

\* the call runs; sample is what random.sample returns if it is reached
SelectCall(sample) ==
  /\ sel.pc = "call"
  /\ sel' = IF SelectRaises(sel.strategy, sel.available_nodes, sel.count,
                            sel.exclude_nodes, sel.chunk_size, sel.free)
            THEN [sel EXCEPT !.pc = "return", !.raised = "ZeroDivisionError"]
            ELSE [sel EXCEPT !.pc = "return",
                             !.result = SelectReplicaNodes(
                                sel.strategy, sel.available_nodes, sel.count,
                                sel.exclude_nodes, sel.chunk_size, sel.free, sample)]
  /\ UNCHANGED <<svn, thr, calls, rm, hb, net, now, ret, chk, rh, coord, request, reply, dn, sfiles, retr, rcv, conn, gen>>

NextSel ==
  LET candidates == SelectCandidates(sel.available_nodes, sel.exclude_nodes,
                                     sel.chunk_size, sel.free)
  IN \E sample \in (IF Len(candidates) >= sel.count
                    THEN Samples(candidates, sel.count) ELSE {<<>>}) :
        SelectCall(sample)

SpecSel == InitSel /\ [][NextSel]_vars

(***************************************************************************)
(* Specification of the DistributedStorageNode: clients send STORE_CHUNK,  *)
(* GET_CHUNK and REPLICATE_CHUNK messages to the nodes, _handle_message    *)
(* answers them.  One message is in flight at a time.                      *)
(***************************************************************************)
\* storage_capacity of a distributed node, in bytes
DnCapacity == 2
\* messages are sent to a node while its used_storage is at most this
MaxUsed == 3

DnFiles == {"f1"}
DnChunkIds == {0, 1}
\* the payloads of STORE_CHUNK; the empty one stands for a missing payload
DnPayloads == {<<>>, <<0>>, <<1>>, <<0, 1>>}

DnMessages ==
  {[NoRequest EXCEPT !.msg_type = "STORE_CHUNK", !.to = x[1], !.file_id = x[2],
                     !.chunk_id = x[3], !.binary_data = x[4]]
     : x \in DNodes \X DnFiles \X DnChunkIds \X DnPayloads}
  \cup {[NoRequest EXCEPT !.msg_type = "GET_CHUNK", !.to = x[1], !.file_id = x[2],
                          !.chunk_id = x[3]]
          : x \in DNodes \X DnFiles \X DnChunkIds}
  \cup {[NoRequest EXCEPT !.msg_type = "REPLICATE_CHUNK", !.to = x[1],
                          !.file_id = x[2], !.chunk_id = x[3],
                          !.source_node = x[4]]
          : x \in {y \in DNodes \X DnFiles \X DnChunkIds \X DNodes : y[1] # y[4]}}

\* the request_id of a message: None or an id the client chose
RequestIds == {"None", "r1"}

\* the messages with and without a request_id
DnRequests == {[m EXCEPT !.request_id = r] : m \in DnMessages, r \in RequestIds}

DnOthers == <<svn, thr, calls, rm, hb, net, now, ret, chk, rh, coord, sel, sfiles, retr, rcv, conn, gen>>

\* the server of node m.to receives a message from a client connection
DnReceiveMessage(m) ==
  /\ request = NoRequest
  /\ dn[m.to].used_storage <= MaxUsed
  /\ request' = m
  /\ reply' = NoReply
  /\ UNCHANGED <<dn, DnOthers>>

\* DistributedStorageNode._handle_message on the received message
DnHandleMessage ==
  /\ request # NoRequest
  /\ LET d == dn[request.to]
         out == IF request.msg_type = "STORE_CHUNK"
                THEN HandleStoreChunk(d, request.file_id, request.chunk_id,
                                      request.binary_data)
                ELSE IF request.msg_type = "GET_CHUNK"
                THEN HandleGetChunk(d, request.file_id, request.chunk_id)
                ELSE HandleReplicateChunk(d)
     IN /\ dn' = [dn EXCEPT ![request.to] = out.node]
        /\ reply' = out.reply
  /\ request' = NoRequest
  /\ UNCHANGED DnOthers

NextDN ==
  \/ \E m \in DnRequests : DnReceiveMessage(m)
  \/ DnHandleMessage

SpecDN == InitNodes /\ [][NextDN]_vars

(***************************************************************************)
(* Specification of retrieve_file: the node holds files whose chunks were  *)
(* stored with their checksums; the contents of a stored chunk may be      *)
(* overwritten behind the node's back; retrieve_file is called.            *)
(***************************************************************************)
\* a stored file has at most this many chunks
RetrMaxChunks == 2

\* the contents a chunk can have
RetrPayloads == {<<0>>, <<0, 1>>}

\* the ways to cut a file into chunk contents
RetrContents == UNION {[1..k -> RetrPayloads] : k \in 1..RetrMaxChunks}

InitRetr ==
  /\ svn = [n \in Nodes |-> NewNode]
  /\ thr = [t \in Threads |-> IdleThread]
  /\ calls = 0
  /\ rm = NewReplicationManager
  /\ hb = NewHeartbeatMonitor
  /\ net = NewNetwork
  /\ now = 0
  /\ ret = NoCall
  /\ chk = IdleCheck
  /\ rh = IdleHeartbeat
  /\ coord = NewCoordinator
  /\ request = NoRequest
  /\ reply = NoReply
  /\ sel = NoSelect
  /\ dn = [n \in DNodes |-> NewDistributedNode]
  /\ retr = NoRetrieve
  /\ rcv = IdleReceivers
  /\ gen = NoGenerate
  /\ conn = NewConnection(<<>>)
  /\ \E S \in SUBSET Files : \E datas \in [S -> RetrContents] :
        sfiles = [f \in S |-> StoredTransfer(datas[f])]

RetrOthers == <<svn, thr, calls, rm, hb, net, now, ret, chk, rh, coord, request, reply, sel, dn, rcv, conn, gen>>

\* chunk.data of a stored chunk is overwritten (as test_real_checksums does)
CorruptChunk(f, i, data) ==
  /\ f \in DOMAIN sfiles
  /\ i \in DOMAIN sfiles[f].chunks
  /\ sfiles[f].chunks[i].data # data
  /\ sfiles' = [sfiles EXCEPT ![f].chunks[i].data = data]
  /\ UNCHANGED <<retr, RetrOthers>>

\* retrieve_file(file_id, destination_node) runs on the test node
RetrieveCall(f, destination_node) ==
  /\ retr' = [pc |-> "return", file_id |-> f, destination_node |-> destination_node,
              result |-> RetrieveFile(sfiles, f, destination_node),
              seq |-> 1 - retr.seq]
  /\ UNCHANGED <<sfiles, RetrOthers>>

NextRetr ==
  \/ \E f \in Files, i \in 1..RetrMaxChunks, data \in RetrPayloads :
        CorruptChunk(f, i, data)
  \/ \E f \in Files : RetrieveCall(f, "n2")

SpecRetr == InitRetr /\ [][NextRetr]_vars

(***************************************************************************)
(* Specification of the replica index: register_chunk and unregister_chunk *)
(* called in any order with any arguments, repeated calls included         *)
(***************************************************************************)
IdxOthers == <<svn, thr, calls, hb, net, now, chk, rh, coord, request, reply, sel, dn, sfiles, retr, rcv, conn, gen>>

\* register_chunk(f, c, n)
IdxRegister(f, c, n) ==
  /\ rm' = RegisterChunk(rm, f, c, n)
  /\ ret' = [NoCall EXCEPT !.seq = 1 - ret.seq, !.op = "register_chunk",
                           !.file_id = f, !.chunk_id = c, !.node_id = n]
  /\ UNCHANGED IdxOthers

\* unregister_chunk(f, c, n)
IdxUnregister(f, c, n) ==
  /\ rm' = UnregisterChunk(rm, f, c, n)
  /\ ret' = [NoCall EXCEPT !.seq = 1 - ret.seq, !.op = "unregister_chunk",
                           !.file_id = f, !.chunk_id = c, !.node_id = n]
  /\ UNCHANGED IdxOthers

NextIdx ==
  \/ \E f \in NetFiles, c \in 0..1, n \in RMNodes : IdxRegister(f, c, n)
  \/ \E f \in NetFiles, c \in 0..1, n \in RMNodes : IdxUnregister(f, c, n)

SpecIdx == InitNodes /\ [][NextIdx]_vars

(***************************************************************************)
(* Specification of receive_heartbeat called from several threads: each    *)
(* call reads the clock (line 163) and then records what it read (166).    *)
(***************************************************************************)
\* last instant of the clock
RcvMaxTime == 4

RcvOthers == <<svn, thr, calls, rm, net, ret, chk, rh, coord, request, reply, sel, dn, sfiles, retr, conn, gen>>

\* lines 162-163: node_id = heartbeat.node_id; now = datetime.now()
RcvReadClock(t, n) ==
  /\ rcv[t].pc = "idle"
  /\ rcv' = [rcv EXCEPT ![t] = [pc |-> "store", node_id |-> n, now |-> now]]
  /\ UNCHANGED <<hb, now, RcvOthers>>

\* lines 166-182: record the timestamp, update the node's status, return
RcvStore(t) ==
  /\ rcv[t].pc = "store"
  /\ hb' = ReceiveHeartbeat(hb, rcv[t].node_id, rcv[t].now)
  /\ rcv' = [rcv EXCEPT ![t].pc = "idle"]
  /\ UNCHANGED <<now, RcvOthers>>

\* the clock moves on
RcvTick ==
  /\ now < RcvMaxTime
  /\ now' = now + 1
  /\ UNCHANGED <<hb, rcv, RcvOthers>>

NextRcv ==
  \/ \E t \in Threads, n \in HBNodes : RcvReadClock(t, n)
  \/ \E t \in Threads : RcvStore(t)
  \/ RcvTick

SpecRcv == InitNodes /\ [][NextRcv]_vars

(***************************************************************************)
(* Specification of get_node_status called while heartbeats arrive and the *)
(* monitor thread checks the nodes: the query tests failed_nodes (line     *)
(* 191) and then healthy_nodes (line 193).                                 *)
(***************************************************************************)
\* last instant of the clock
StatMaxTime == 65

\* the nodes that send heartbeats and are queried
StatNodes == {"n1"}

StatOthers == <<svn, thr, calls, rm, hb, net, now, chk, rh, coord, request, reply, sel, dn, sfiles, retr, rcv, conn, gen>>

\* line 191: if node_id in self.failed_nodes: return FAILED
QryTestFailed(n) ==
  /\ ret.result # "testing"
  /\ ret' = [NoCall EXCEPT !.seq = 1 - ret.seq, !.op = "get_node_status",
                           !.node_id = n,
                           !.result = IF n \in hb.failed_nodes THEN "FAILED"
                                      ELSE "testing"]
  /\ UNCHANGED StatOthers

\* lines 193-196: elif node_id in self.healthy_nodes: HEALTHY, else OFFLINE
QryTestHealthy ==
  /\ ret.result = "testing"
  /\ ret' = [ret EXCEPT !.result = IF ret.node_id \in hb.healthy_nodes
                                   THEN "HEALTHY" ELSE "OFFLINE"]
  /\ UNCHANGED StatOthers

NextStat ==
  \/ \E n \in StatNodes : RhRecord(n)
  \/ \E n \in StatNodes : RhTestFailed(n)
  \/ \E n \in StatNodes : RhRecover(n)
  \/ \E n \in StatNodes : RhTestHealthy(n)
  \/ ChkStart
  \/ ChkNode
  \/ ChkDone
  \/ \E n \in StatNodes : QryTestFailed(n)
  \/ QryTestHealthy
  \/ \E d \in {failure_timeout, failure_timeout + recovery_check_interval} :
        AdvanceClock(d, StatMaxTime)

SpecStat == InitNodes /\ [][NextStat]_vars

(***************************************************************************)
(* Specification of the monitor with callbacks that may raise: the calls   *)
(* of on_node_failure and on_node_recovery in _mark_node_failed and        *)
(* _mark_node_recovered are wrapped in try/except Exception.               *)
(***************************************************************************)
\* last instant of the clock
CbMaxTime == 35

CbOthers == <<thr, calls, net, now, rh, coord, request, reply, sel, dn, sfiles, retr, rcv, conn, gen>>

\* what is left of the pass when the callback raised and the exception
\* propagated out of _check_all_nodes
AfterCallbackUncaught(todo, raised) == IF raised THEN <<>> ELSE Tail(todo)

\* what is left of the pass after the callback: the exception is caught and
\* logged (lines 134-138, 149-153), the loop goes on
AfterCallback(todo, raised) == Tail(todo)

\* one iteration of the loop of _check_all_nodes; raises tells whether the
\* callback it invokes raises
ChkNodeCb(raises) ==
  /\ chk.pc = "loop"
  /\ chk.todo # <<>>
  /\ LET n == Head(chk.todo)
         timed == TimedOut(chk.snap[n], chk.tick_now)
         fails == timed /\ n \notin hb.failed_nodes
         recovers == ~timed /\ n \in hb.failed_nodes
         S == CheckNode(Sys, n, chk.snap[n], chk.tick_now, SomeOrder)
     IN /\ raises => (fails \/ recovers)
        /\ IF raises
           THEN /\ hb' = IF fails THEN MarkNodeFailedStatus(hb, n)
                         ELSE MarkNodeRecovered(hb, n)
                /\ svn' = svn
                /\ rm' = rm
           ELSE /\ svn' = S.svn
                /\ rm' = S.rm
                /\ hb' = S.hb
        /\ ret' = IF fails \/ recovers
                  THEN [NoCall EXCEPT !.seq = 1 - ret.seq,
                                      !.op = IF fails THEN "on_node_failure"
                                             ELSE "on_node_recovery",
                                      !.node_id = n,
                                      !.result = IF raises THEN "raised"
                                                 ELSE "returned"]
                  ELSE ret
        /\ chk' = [chk EXCEPT !.todo = IF fails \/ recovers
                                       THEN AfterCallback(@, raises)
                                       ELSE Tail(@)]
  /\ UNCHANGED CbOthers

NextCb ==
  \/ \E n \in HBNodes : RhRecord(n)
  \/ \E n \in HBNodes : RhTestFailed(n)
  \/ \E n \in HBNodes : RhRecover(n)
  \/ \E n \in HBNodes : RhTestHealthy(n)
  \/ ChkStart
  \/ \E raises \in BOOLEAN : ChkNodeCb(raises)
  \/ ChkDone
  \/ \E d \in {failure_timeout, failure_timeout + recovery_check_interval} :
        AdvanceClock(d, CbMaxTime)

SpecCb == InitNodes /\ [][NextCb]_vars

(***************************************************************************)
(* Specification of NetworkServer._handle_client on one connection: the    *)
(* client sends any sequence of units and closes; the server reads a       *)
(* header, reads the body it announces, decodes, calls the handler.        *)
(***************************************************************************)
\* the longest sequence of units a client sends
MaxStream == 6

\* the values of a unit
Units == 0..(MaxMessageSize + 1)

Streams == UNION {[1..k -> Units] : k \in 0..MaxStream}

InitFrame ==
  /\ svn = [n \in Nodes |-> NewNode]
  /\ thr = [t \in Threads |-> IdleThread]
  /\ calls = 0
  /\ rm = NewReplicationManager
  /\ hb = NewHeartbeatMonitor
  /\ net = NewNetwork
  /\ now = 0
  /\ ret = NoCall
  /\ chk = IdleCheck
  /\ rh = IdleHeartbeat
  /\ coord = NewCoordinator
  /\ request = NoRequest
  /\ reply = NoReply
  /\ sel = NoSelect
  /\ dn = [n \in DNodes |-> NewDistributedNode]
  /\ sfiles = <<>>
  /\ retr = NoRetrieve
  /\ rcv = IdleReceivers
  /\ gen = NoGenerate
  /\ \E wire \in Streams : conn = NewConnection(wire)

FrameOthers == <<svn, thr, calls, rm, hb, net, now, ret, chk, rh, coord, request, reply, sel, dn, sfiles, retr, rcv, gen>>

\* receive_full_message, lines 170-181: read the header; the connection is
\* closed when the client has closed or the announced length is too large
SrvRecvHeader ==
  /\ conn.pc = "header"
  /\ conn' = IF conn.wire = <<>> THEN [conn EXCEPT !.pc = "closed"]
             ELSE [conn EXCEPT !.wire = Tail(@), !.header = Head(conn.wire),
                               !.body = <<>>,
                               !.pc = IF Head(conn.wire) > MaxMessageSize
                                      THEN "closed" ELSE "body"]
  /\ UNCHANGED FrameOthers

\* receive_full_message, lines 184-189: read the next part of the body
SrvRecvBody ==
  /\ conn.pc = "body"
  /\ Len(conn.body) < conn.header
  /\ conn' = IF conn.wire = <<>> THEN [conn EXCEPT !.pc = "closed"]
             ELSE [conn EXCEPT !.wire = Tail(@), !.body = Append(@, Head(conn.wire))]
  /\ UNCHANGED FrameOthers

\* _handle_client, lines 145-163: decode the frame and call the handler; an
\* exception of decode_message ends the loop and closes the connection
SrvDecode ==
  /\ conn.pc = "body"
  /\ Len(conn.body) = conn.header
  /\ LET decoded == DecodeMessage(<<conn.header>> \o conn.body)
     IN conn' = IF decoded.raised # "none" THEN [conn EXCEPT !.pc = "closed"]
                ELSE [conn EXCEPT !.pc = "header",
                                  !.handled = Append(@, [msg_type |-> decoded.msg_type,
                                                         binary_data |-> decoded.binary_data])]
  /\ UNCHANGED FrameOthers

NextFrame ==
  \/ SrvRecvHeader
  \/ SrvRecvBody
  \/ SrvDecode

SpecFrame == InitFrame /\ [][NextFrame]_vars

(***************************************************************************)
(* encode_message and decode_message as a pair: request holds the message  *)
(* and the binary data handed to encode_message, conn.wire the frame it    *)
(* returned, reply what decode_message made of that frame.                 *)
(***************************************************************************)
\* the longest binary data handed to encode_message
MaxPayload == 2

Payloads == UNION {[1..k -> Units] : k \in 0..MaxPayload}

\* decode_message has not been called
NoDecoded == DecodeRaises("not called")

CodecOthers == <<svn, thr, calls, rm, hb, net, now, ret, chk, rh, coord, sel, dn, sfiles, retr, rcv, gen>>

InitCodec ==
  /\ svn = [n \in Nodes |-> NewNode]
  /\ thr = [t \in Threads |-> IdleThread]
  /\ calls = 0
  /\ rm = NewReplicationManager
  /\ hb = NewHeartbeatMonitor
  /\ net = NewNetwork
  /\ now = 0
  /\ ret = NoCall
  /\ chk = IdleCheck
  /\ rh = IdleHeartbeat
  /\ coord = NewCoordinator
  /\ \E message \in {HeartbeatMessage, StoreChunkMessage}, binary_data \in Payloads :
        request = [message |-> message, binary_data |-> binary_data]
  /\ reply = NoDecoded
  /\ sel = NoSelect
  /\ dn = [n \in DNodes |-> NewDistributedNode]
  /\ sfiles = <<>>
  /\ retr = NoRetrieve
  /\ rcv = IdleReceivers
  /\ gen = NoGenerate
  /\ conn = NewConnection(<<>>)

\* frame = ProtocolHandler.encode_message(message, binary_data)
CodecEncode ==
  /\ conn.wire = <<>>
  /\ conn' = NewConnection(EncodeMessage(request.message, request.binary_data))
  /\ UNCHANGED <<request, reply>>
  /\ UNCHANGED CodecOthers

\* ProtocolHandler.decode_message(frame)
CodecDecode ==
  /\ conn.wire # <<>>
  /\ reply = NoDecoded
  /\ reply' = DecodeMessage(conn.wire)
  /\ UNCHANGED <<request, conn>>
  /\ UNCHANGED CodecOthers

NextCodec ==
  \/ CodecEncode
  \/ CodecDecode

SpecCodec == InitCodec /\ [][NextCodec]_vars

(***************************************************************************)
(* Specification of the monitor loop in time: _monitor_loop runs a pass,   *)
(* sleeps recovery_check_interval and runs the next; the nodes send        *)
(* heartbeats up to the instant LoopLastBeat and are silent afterwards.    *)
(* Time passes only while the monitor thread sleeps and no                 *)
(* receive_heartbeat call is under way; within an instant the threads      *)
(* interleave freely.                                                      *)
(***************************************************************************)
\* the instant of the last heartbeats
LoopLastBeat == 36
\* last instant of the clock
LoopMaxTime == 74

LoopOthers == <<svn, thr, calls, rm, net, ret, coord, request, reply, sel, dn, sfiles, retr, rcv, conn, gen>>

\* a node sends a heartbeat; its sender sleeps heartbeat_interval between
\* two heartbeats, so that no two of them come in the same second
LoopBeat(n) ==
  /\ now <= LoopLastBeat
  /\ n \in DOMAIN hb.last_heartbeat => hb.last_heartbeat[n] < now
  /\ RhRecord(n)

\* lines 91-93: the thread wakes up and starts a pass; while it sleeps,
\* chk.tick_now is the instant at which the sleep ends
LoopStart ==
  /\ chk.tick_now <= now
  /\ ChkStart

\* line 97: the pass is over, time.sleep(check_interval)
LoopSleep ==
  /\ chk.pc = "loop"
  /\ chk.todo = <<>>
  /\ chk' = [IdleCheck EXCEPT !.tick_now = now + recovery_check_interval]
  /\ UNCHANGED <<hb, now, rh>>
  /\ UNCHANGED LoopOthers

\* a second passes
LoopTick ==
  /\ now < LoopMaxTime
  /\ chk.pc = "idle"
  /\ chk.tick_now > now
  /\ \A n \in HBNodes : rh[n] = "idle"
  /\ now' = now + 1
  /\ UNCHANGED <<hb, chk, rh>>
  /\ UNCHANGED LoopOthers

\* the steps of the threads that are awake
LoopSteps ==
  \/ \E n \in HBNodes : RhTestFailed(n)
  \/ \E n \in HBNodes : RhRecover(n)
  \/ \E n \in HBNodes : RhTestHealthy(n)
  \/ LoopStart
  \/ ChkNode
  \/ LoopSleep

NextLoop ==
  \/ \E n \in HBNodes : LoopBeat(n)
  \/ LoopSteps
  \/ LoopTick

SpecLoop == InitNodes /\ [][NextLoop]_vars

\* a thread that can run does run, and time does not stand still
FairLoop == SpecLoop /\ WF_vars(LoopSteps) /\ SF_vars(LoopTick)

(***************************************************************************)
(* Specification of re-replication: process_file_transfer goes from node   *)
(* to node while handle_node_failure, called by the monitor thread or      *)
(* directly, re-replicates the chunks of the failed node one by one.       *)
(***************************************************************************)
\* largest number of handle_node_failure calls
MaxFailures == 2

RepOthers == <<thr, now, rh, coord, request, reply, dn, sfiles, retr, rcv, conn, gen>>

\* the calling thread is not inside process_file_transfer
RepApiIdle == ret.op # "processing"

\* process_file_transfer, lines 300-306: look up the transfers of the file
RepProcessBegin(f, perm) ==
  /\ RepApiIdle
  /\ f \in DOMAIN net.transfer_operations
  /\ ret' = [NoCall EXCEPT !.seq = 1 - ret.seq, !.op = "processing", !.file_id = f,
                            !.list = ListOfSet(net.transfer_operations[f], perm),
                            !.result = "True"]
  /\ UNCHANGED <<svn, rm, hb, net, chk, sel, calls>>
  /\ UNCHANGED RepOthers

\* lines 312-339: the pending chunks of the next node
RepProcessNode(chunks_per_step) ==
  /\ ret.op = "processing"
  /\ ret.list # <<>>
  /\ LET n == Head(ret.list)
         nd == ProcessPendingChunks(svn[n], ret.file_id, 0, chunks_per_step, "client")
     IN /\ svn' = [svn EXCEPT ![n] = nd]
        /\ ret' = [ret EXCEPT !.list = Tail(@),
                              !.result = IF nd.transfers[ret.file_id].status = "COMPLETED"
                                         THEN @ ELSE "False"]
  /\ UNCHANGED <<rm, hb, net, chk, sel, calls>>
  /\ UNCHANGED RepOthers

\* lines 341-349: the file is done if every node completed it
RepProcessEnd ==
  /\ ret.op = "processing"
  /\ ret.list = <<>>
  /\ net' = IF ret.result = "True" /\ ret.file_id \in DOMAIN net.transfer_operations
            THEN [net EXCEPT !.transfer_operations = DictPop(@, ret.file_id),
                             !.completed_transfers = @ \cup {ret.file_id}]
            ELSE net
  /\ ret' = [ret EXCEPT !.op = "process"]
  /\ UNCHANGED <<svn, rm, hb, chk, sel, calls>>
  /\ UNCHANGED RepOthers

\* an upload by the calling thread
RepUpload(f, file_size, replication_factor, perm) ==
  /\ RepApiIdle
  /\ NetUpload(f, file_size, replication_factor, perm)

\* handle_node_failure(n), lines 351-371: called directly, or by the monitor
\* thread from _mark_node_failed once the node's heartbeats are overdue;
\* the chunks to re-replicate are kept for the loop of lines 373-375
RepFailure(n, by_monitor) ==
  /\ chk.pc = "idle"
  /\ calls < MaxFailures
  /\ calls' = calls + 1
  /\ by_monitor => n \notin hb.failed_nodes
  /\ hb' = IF by_monitor THEN MarkNodeFailedStatus(hb, n) ELSE hb
  /\ LET res == RMHandleNodeFailure(rm, n)
     IN /\ rm' = res.rm
        /\ chk' = IF enable_auto_recovery /\ res.under_replicated # <<>>
                  THEN [pc |-> "failure", tick_now |-> 0, snap |-> <<n>>,
                        todo |-> res.under_replicated]
                  ELSE IdleCheck
        /\ by_monitor \/ rm' # rm
  /\ UNCHANGED <<svn, net, ret, sel>>
  /\ UNCHANGED RepOthers

\* lines 424-429: the select_replica_nodes call of _re_replicate_chunk with
\* its arguments and its result, or none when the method returns before it
ReReplicateSelect(S, f, c, failed_node_id, perm) ==
  LET current_locations == GetChunkLocations(S.rm, f, c)
      source_node_id == Head(ListOfSet(current_locations, perm))
      needed == default_factor - Cardinality(current_locations)
  IN IF current_locations = {} THEN NoSelect
     ELSE IF f \notin S.svn[source_node_id].stored_files THEN NoSelect
     ELSE IF needed <= 0 THEN NoSelect
     ELSE LET chunk_size == S.svn[source_node_id].transfers[f].chunks[c + 1].size
              exclude_nodes == current_locations \cup {failed_node_id}
          IN [NoSelect EXCEPT
                !.pc = "return", !.strategy = placement_strategy,
                !.available_nodes = GetHealthyNodes(S, perm),
                !.count = needed, !.exclude_nodes = exclude_nodes,
                !.chunk_size = chunk_size, !.free = FreeSpace(S),
                !.result = SelectReplicaNodes(placement_strategy,
                             GetHealthyNodes(S, perm), needed, exclude_nodes,
                             chunk_size, FreeSpace(S), <<>>)]

\* one _re_replicate_chunk call of the loop
RepCall(perm) ==
  /\ chk.pc = "failure"
  /\ LET f == Head(chk.todo)[1]
         c == Head(chk.todo)[2]
         S == ReReplicateChunk(Sys, f, c, chk.snap[1], perm)
     IN /\ svn' = S.svn
        /\ rm' = S.rm
        /\ sel' = ReReplicateSelect(Sys, f, c, chk.snap[1], perm)
  /\ chk' = IF Tail(chk.todo) = <<>> THEN IdleCheck ELSE [chk EXCEPT !.todo = Tail(@)]
  /\ UNCHANGED <<hb, net, ret, calls>>
  /\ UNCHANGED RepOthers

\* the orders in which dicts and sets of nodes are walked through
RepPerms == {<<"n1", "n2", "n3", "n4">>, <<"n4", "n3", "n2", "n1">>}

NextRep ==
  \/ \E f \in NetFiles, s \in FileSizes, r \in 1..MaxFactor, perm \in RepPerms :
        RepUpload(f, s, r, perm)
  \/ \E f \in NetFiles, perm \in RepPerms : RepProcessBegin(f, perm)
  \/ \E cps \in 1..2 : RepProcessNode(cps)
  \/ RepProcessEnd
  \/ \E n \in Nodes, by_monitor \in BOOLEAN : RepFailure(n, by_monitor)
  \/ \E perm \in RepPerms : RepCall(perm)

SpecRep == InitNet /\ [][NextRep]_vars

(***************************************************************************)
(* Specification of uploads and transfers on a network that loses nodes    *)
(* through remove_node; net.nodes holds the ids in self.nodes.             *)
(***************************************************************************)
RmvOthers == <<thr, calls, rm, hb, now, chk, rh, coord, request, reply, sel, dn, sfiles, retr, rcv, conn, gen>>

\* the cluster after add_node for every node and their first heartbeats
InitRemove ==
  /\ svn = [n \in Nodes |-> NewNode]
  /\ thr = [t \in Threads |-> IdleThread]
  /\ calls = 0
  /\ rm = NewReplicationManager
  /\ hb = [NewHeartbeatMonitor EXCEPT
             !.last_heartbeat = [n \in Nodes |-> 0],
             !.known = <<"n1", "n2", "n3", "n4">>,
             !.healthy_nodes = Nodes]
  /\ net = [transfer_operations |-> <<>>, completed_transfers |-> {}, nodes |-> Nodes]
  /\ now = 0
  /\ ret = NoCall
  /\ chk = IdleCheck
  /\ rh = IdleHeartbeat
  /\ coord = NewCoordinator
  /\ request = NoRequest
  /\ reply = NoReply
  /\ sel = NoSelect
  /\ dn = [n \in DNodes |-> NewDistributedNode]
  /\ sfiles = <<>>
  /\ retr = NoRetrieve
  /\ rcv = IdleReceivers
  /\ gen = NoGenerate
  /\ conn = NewConnection(<<>>)

\* an upload while every node is still in the network
RmvUpload(f, file_size, replication_factor, perm) ==
  /\ net.nodes = Nodes
  /\ NetUpload(f, file_size, replication_factor, perm)

\* remove_node(node_id): shutdown waits for the active transfers of the node
\* for at most 30 seconds, then the node is deleted from self.nodes
RemoveNode(n) ==
  /\ n \in net.nodes
  /\ net' = [net EXCEPT !.nodes = @ \ {n}]
  /\ UNCHANGED <<svn, ret>>
  /\ UNCHANGED RmvOthers

\* process_file_transfer(file_id, chunks_per_step): a node that is no longer
\* in self.nodes is skipped (lines 312-314)
RmvProcessFileTransfer(f, chunks_per_step) ==
  /\ f \in DOMAIN net.transfer_operations
  /\ LET node_transfers == net.transfer_operations[f]
         svn1 == [n \in Nodes |->
                    IF n \in node_transfers /\ n \in net.nodes
                    THEN ProcessPendingChunks(svn[n], f, 0, chunks_per_step, "client")
                    ELSE svn[n]]
         all_nodes_complete ==
            \A n \in node_transfers \cap net.nodes :
               svn1[n].transfers[f].status = "COMPLETED"
     IN /\ svn' = svn1
        /\ net' = IF all_nodes_complete
                  THEN [net EXCEPT !.transfer_operations = DictPop(@, f),
                                   !.completed_transfers = @ \cup {f}]
                  ELSE net
        /\ ret' = [NoCall EXCEPT !.seq = 1 - ret.seq, !.op = "process", !.file_id = f,
                                  !.result = IF all_nodes_complete THEN "True"
                                             ELSE "False"]
  /\ UNCHANGED RmvOthers

NextRemove ==
  \/ \E f \in NetFiles, s \in FileSizes, r \in 1..MaxFactor, perm \in Perms :
        RmvUpload(f, s, r, perm)
  \/ \E n \in Nodes : RemoveNode(n)
  \/ \E f \in NetFiles, cps \in 1..2 : RmvProcessFileTransfer(f, cps)

SpecRemove == InitRemove /\ [][NextRemove]_vars

(***************************************************************************)
(* Specification of the locks of one StorageVirtualNode: every thread runs *)
(* initiate_file_transfer, process_chunk_transfer, complete_chunk_transfer *)
(* or a utilization getter; thr[t].pc is the block of the method the       *)
(* thread is in, and the locks a thread holds follow from the block.  The  *)
(* tests on the data (early returns, all chunks completed, KeyError) are   *)
(* open choices here.                                                      *)
(***************************************************************************)
LockOthers == <<svn, calls, rm, hb, net, now, ret, chk, rh, coord, request, reply, sel, dn, sfiles, retr, rcv, conn, gen>>

\* variant: initiate_file_transfer keeps storage_lock until the transfer is
\* recorded under transfer_lock
HeldNested(pc) ==
  CASE pc \in {"ift_check", "ift_generate"} -> {"storage_lock"}
    [] pc = "ift_insert" -> {"storage_lock", "transfer_lock"}
    [] pc \in {"pct_lookup", "pct_check", "pct_move", "pct_done"} -> {"transfer_lock"}
    [] pc \in {"pct_read", "pct_reserve"} -> {"bandwidth_lock"}
    [] pc = "pct_storage" -> {"transfer_lock", "storage_lock"}
    [] pc = "pct_release" -> {"transfer_lock", "bandwidth_lock"}
    [] pc \in {"cct_release", "gnu_read"} -> {"bandwidth_lock"}
    [] pc = "gsu_read" -> {"storage_lock"}
    [] OTHER -> {}

\* the locks a thread holds in each block: the `with` statements of lines
\* 174, 194, 215, 241, 271, 288, 293, 301, 325, 382, 394
Held(pc) ==
  CASE pc = "ift_check" -> {"storage_lock"}
    [] pc = "ift_insert" -> {"transfer_lock"}
    [] pc \in {"pct_lookup", "pct_check", "pct_move", "pct_done"} -> {"transfer_lock"}
    [] pc \in {"pct_read", "pct_reserve"} -> {"bandwidth_lock"}
    [] pc = "pct_storage" -> {"transfer_lock", "storage_lock"}
    [] pc = "pct_release" -> {"transfer_lock", "bandwidth_lock"}
    [] pc \in {"cct_release", "gnu_read"} -> {"bandwidth_lock"}
    [] pc = "gsu_read" -> {"storage_lock"}
    [] OTHER -> {}

\* the blocks that can follow a block; "idle" is the return of the method,
\* also by an exception, which leaves the `with` blocks it is in
Succ(pc) ==
  CASE pc = "ift_begin" -> {"ift_check"}
    [] pc = "ift_check" -> {"idle", "ift_generate"}
    [] pc = "ift_generate" -> {"ift_insert"}
    [] pc = "ift_insert" -> {"idle"}
    [] pc = "pct_begin" -> {"pct_lookup"}
    [] pc = "pct_lookup" -> {"idle", "pct_find"}
    [] pc = "pct_find" -> {"idle", "pct_read"}
    [] pc = "pct_read" -> {"idle", "pct_sleep"}
    [] pc = "pct_sleep" -> {"pct_reserve"}
    [] pc = "pct_reserve" -> {"pct_mark"}
    [] pc = "pct_mark" -> {"pct_check"}
    [] pc = "pct_check" -> {"idle", "pct_storage"}
    [] pc = "pct_storage" -> {"pct_move"}
    [] pc = "pct_move" -> {"idle", "pct_release"}
    [] pc = "pct_release" -> {"pct_done"}
    [] pc = "pct_done" -> {"idle"}
    [] pc = "cct_begin" -> {"cct_release"}
    [] pc = "cct_release" -> {"idle"}
    [] pc = "gsu_begin" -> {"gsu_read"}
    [] pc = "gsu_read" -> {"idle"}
    [] pc = "gnu_begin" -> {"gnu_read"}
    [] pc = "gnu_read" -> {"idle"}
    [] OTHER -> {}

\* the locks thread t has to acquire to go from its block to block q
Acquires(t, q) == Held(q) \ Held(thr[t].pc)

\* a lock is free for thread t when no other thread holds it
LockFree(t, l) == \A u \in Threads \ {t} : l \notin Held(thr[u].pc)

\* thread t calls a method of the node
LockCall(t, entry) ==
  /\ thr[t].pc = "idle"
  /\ thr' = [thr EXCEPT ![t].pc = entry]
  /\ UNCHANGED LockOthers

\* thread t goes on to block q of the method with the given prefix
LockStep(t, q, prefix) ==
  /\ SubSeq(thr[t].pc, 1, 3) = prefix
  /\ q \in Succ(thr[t].pc)
  /\ \A l \in Acquires(t, q) : LockFree(t, l)
  /\ thr' = [thr EXCEPT ![t].pc = q]
  /\ UNCHANGED LockOthers

\* the first blocks of the methods
LockEntries == {"ift_begin", "pct_begin", "cct_begin", "gsu_begin", "gnu_begin"}

NextLock ==
  \/ \E t \in Threads, entry \in LockEntries : LockCall(t, entry)
  \/ \E t \in Threads, q \in {"idle", "ift_check", "ift_generate", "ift_insert"} :
        LockStep(t, q, "ift")
  \/ \E t \in Threads,
        q \in {"idle", "pct_lookup", "pct_find", "pct_read", "pct_sleep", "pct_reserve",
               "pct_mark", "pct_check", "pct_storage", "pct_move", "pct_release",
               "pct_done"} :
        LockStep(t, q, "pct")
  \/ \E t \in Threads, q \in {"idle", "cct_release"} : LockStep(t, q, "cct")
  \/ \E t \in Threads, q \in {"idle", "gsu_read"} : LockStep(t, q, "gsu")
  \/ \E t \in Threads, q \in {"idle", "gnu_read"} : LockStep(t, q, "gnu")

SpecLock == InitNodes /\ [][NextLock]_vars

(***************************************************************************)
(* Specification of select_replica_nodes with the sorting strategies over  *)
(* a pool of up to five nodes, as in the fixture of test_replication.py    *)
(***************************************************************************)
\* largest number of replicas asked for from the larger pool
MaxDivCount == 3

DivNodes == {"n1", "n2", "n3", "n4", "n5"}
DivStrategies == {"diverse", "least_loaded"}
\* the orders in which the pool lists its nodes
DivOrders == {<<"n1", "n2", "n3", "n4", "n5">>, <<"n5", "n4", "n3", "n2", "n1">>}
DivPools == {ListOfSet(S, perm) : S \in SUBSET DivNodes, perm \in DivOrders}
\* used_storage of the nodes of the pool, each as large as node n1
DivUsed == [DivNodes -> {0, 1, 2}]
DivExcludes == {{}, {"n1"}}

\* select_replica_nodes is about to be called with these arguments
InitDiv ==
  /\ svn = [n \in Nodes |-> NewNode]
  /\ thr = [t \in Threads |-> IdleThread]
  /\ calls = 0
  /\ rm = NewReplicationManager
  /\ hb = NewHeartbeatMonitor
  /\ net = NewNetwork
  /\ now = 0
  /\ ret = NoCall
  /\ chk = IdleCheck
  /\ rh = IdleHeartbeat
  /\ coord = NewCoordinator
  /\ request = NoRequest
  /\ reply = NoReply
  /\ dn = [n \in DNodes |-> NewDistributedNode]
  /\ sfiles = <<>>
  /\ retr = NoRetrieve
  /\ rcv = IdleReceivers
  /\ gen = NoGenerate
  /\ conn = NewConnection(<<>>)
  /\ \E strategy \in DivStrategies, available_nodes \in DivPools, count \in 0..MaxDivCount,
        exclude_nodes \in DivExcludes, used \in DivUsed :
        sel = [NoSelect EXCEPT !.pc = "call", !.strategy = strategy,
                               !.available_nodes = available_nodes,
                               !.count = count, !.exclude_nodes = exclude_nodes,
                               !.chunk_size = 3,
                               !.free = [n \in DivNodes |-> TotalStorage("n1") - used[n]]]

\* neither strategy reaches random.sample
NextDiv == SelectCall(<<>>)

SpecDiv == InitDiv /\ [][NextDiv]_vars

(***************************************************************************)
(* Specification of _generate_chunks: a file of any size up to MaxGenSize  *)
(* is cut into chunks.                                                     *)
(***************************************************************************)
\* largest file that is cut, in the unit of the chunk sizes
MaxGenSize == 410

\* the byte at position i of a file is i or i + 1
GenOffsets == {0, 1}

InitGen ==
  /\ svn = [n \in Nodes |-> NewNode]
  /\ thr = [t \in Threads |-> IdleThread]
  /\ calls = 0
  /\ rm = NewReplicationManager
  /\ hb = NewHeartbeatMonitor
  /\ net = NewNetwork
  /\ now = 0
  /\ ret = NoCall
  /\ chk = IdleCheck
  /\ rh = IdleHeartbeat
  /\ coord = NewCoordinator
  /\ request = NoRequest
  /\ reply = NoReply
  /\ sel = NoSelect
  /\ dn = [n \in DNodes |-> NewDistributedNode]
  /\ sfiles = <<>>
  /\ retr = NoRetrieve
  /\ rcv = IdleReceivers
  /\ conn = NewConnection(<<>>)
  /\ \E file_size \in 0..MaxGenSize, offset \in GenOffsets :
        gen = [NoGenerate EXCEPT !.pc = "call",
                                 !.file_data = [i \in 1..file_size |-> i + offset]]

\* the call runs
GenerateCall ==
  /\ gen.pc = "call"
  /\ gen' = [gen EXCEPT !.pc = "return", !.chunks = GenerateChunkData(gen.file_data)]
  /\ UNCHANGED <<svn, thr, calls, rm, hb, net, now, ret, chk, rh, coord, request, reply, sel, dn, sfiles, retr, rcv, conn>>

NextGen == GenerateCall

SpecGen == InitGen /\ [][NextGen]_vars

(***************************************************************************)
(* Claims about the node's bandwidth accounting                            *)
(***************************************************************************)
\* C1: in every reachable state, under any interleaving of concurrent
\* process_chunk_transfer calls, the sum of the reservations in
\* active_bandwidth_usage is at most the node's bandwidth.
BandwidthWithinCapacity ==
  SumValues(svn[TestNode].active_bandwidth_usage) <= NodeBandwidth

\* a call on (file_id, chunk_id) that has recorded its reservation and has
\* not returned yet
InFlight(k) ==
  \E t \in Threads :
     /\ thr[t].pc \in {"mark", "finish"}
     /\ <<thr[t].file_id, thr[t].chunk_id>> = k

\* C2: every process_chunk_transfer call removes its own reservation before
\* it returns: a reservation that is recorded belongs to a call that is
\* still in flight, also when the chunk is not the last one of its file.
ReservationReleasedOnReturn ==
  \A k \in DOMAIN svn[TestNode].active_bandwidth_usage : InFlight(k)

(***************************************************************************)
(* Claims about the StorageVirtualNetwork                                  *)
(***************************************************************************)
\* the healthy nodes that have room for chunk_size more units
HealthyWithSpace(h, nodes, chunk_size) ==
  {n \in h.healthy_nodes : TotalStorage(n) - nodes[n].used_storage >= chunk_size}

\* replication_factor and chunk sizes of an uploaded file, from any node
\* that holds a transfer record of it
TransferOf(nodes, f) ==
  nodes[CHOOSE n \in Nodes : nodes[n].transfers[f].status # "NONE"].transfers[f]

\* C3: with enable_auto_recovery, after the failure of a node that leaves at
\* least replication_factor healthy nodes with enough free space, failure
\* handling brings the location set of every chunk the failed node held back
\* to replication_factor distinct healthy nodes (stated for a stored file of
\* which another holder survives).
ReReplicationRestores ==
  [][\A n \in Nodes : \A k \in DOMAIN rm.chunk_locations :
       ( /\ enable_auto_recovery
         /\ n \notin hb.failed_nodes /\ n \in hb'.failed_nodes
         /\ n \in rm.chunk_locations[k]
         /\ k[1] \in net.completed_transfers
         /\ rm.chunk_locations[k] \cap hb'.healthy_nodes # {}
         /\ Cardinality(HealthyWithSpace(hb', svn',
              TransferOf(svn, k[1]).chunks[k[2] + 1].size))
               >= TransferOf(svn, k[1]).replication_factor )
       => /\ Cardinality(rm'.chunk_locations[k])
               = TransferOf(svn, k[1]).replication_factor
          /\ rm'.chunk_locations[k] \subseteq hb'.healthy_nodes]_vars

UploadPlacesExactly ==
  [][( /\ ret'.seq # ret.seq
       /\ ret'.op = "upload"
       /\ Cardinality(HealthyWithSpace(hb, svn, ret'.file_size))
             >= ret'.replication_factor )
     => LET f == ret'.file_id
            T == {n \in Nodes : f \in svn'[n].active_transfers}
        IN /\ ret'.result = "file_id"
           /\ Cardinality(T) = ret'.replication_factor
           /\ T \subseteq HealthyWithSpace(hb, svn, ret'.file_size)
           /\ f \in DOMAIN net'.transfer_operations
           /\ net'.transfer_operations[f] = T
           /\ \A k \in DOMAIN rm'.chunk_locations :
                 k[1] = f => k[2] \in 0..(NumChunks(ret'.file_size) - 1)
           /\ \A c \in 0..(NumChunks(ret'.file_size) - 1) :
                 /\ <<f, c>> \in DOMAIN rm'.chunk_locations
                 /\ rm'.chunk_locations[<<f, c>>] = T]_vars

\* C8 witness: an upload with replication_factor 3 succeeded while a node
\* was failed
UploadPlacesExactlyWitness ==
  /\ ret.op = "upload"
  /\ ret.result = "file_id"
  /\ ret.replication_factor = 3
  /\ hb.failed_nodes # {}
  /\ Cardinality({n \in Nodes : ret.file_id \in svn[n].active_transfers}) = 3

(***************************************************************************)
(* Claims about the ReplicationManager                                     *)
(***************************************************************************)
\* C4: handle_node_failure(n) returns, and appends to the replication queue,
\* every chunk that n held whose remaining replica count is below the
\* replication factor.
FailureReportsUnderReplicated ==
  [][(ret'.seq # ret.seq /\ ret'.op = "handle_node_failure")
     => \A k \in DOMAIN rm.chunk_locations :
          ( /\ ret'.node_id \in rm.chunk_locations[k]
            /\ Cardinality(rm'.chunk_locations[k]) < default_factor )
          => /\ k \in SeqToSet(ret'.list)
             /\ \E i \in DOMAIN rm'.replication_queue :
                   /\ rm'.replication_queue[i][1] = k[1]
                   /\ rm'.replication_queue[i][2] = k[2]]_vars

(***************************************************************************)
(* Claims about the HeartbeatMonitor                                       *)
(***************************************************************************)
\* C6: receive_heartbeat for node N leaves N in healthy_nodes and not in
\* failed_nodes; the recovery callback is invoked exactly once per FAILED to
\* HEALTHY transition and not when N was not failed, also when the heartbeat
\* arrives while _check_all_nodes is running.
HeartbeatRecoversOnce ==
  [][\A n \in Nodes :
       /\ (rh[n] # "idle" /\ rh'[n] = "idle")
            => (n \in hb'.healthy_nodes /\ n \notin hb'.failed_nodes)
       /\ hb'.recovery_events[n] > hb.recovery_events[n]
            => /\ n \in hb.failed_nodes
               /\ hb'.recovery_events[n] = hb.recovery_events[n] + 1
               /\ hb'.total_recoveries = hb.total_recoveries + 1]_vars

\* the monitor thread examines the snapshot entry of node n in this step
ChecksNode(n) ==
  /\ chk.pc = "loop"
  /\ chk.todo # <<>>
  /\ Head(chk.todo) = n
  /\ chk'.todo = Tail(chk.todo)

\* C7: _check_all_nodes moves every known node whose last heartbeat is older
\* than failure_timeout, and that is not already failed, out of healthy_nodes
\* into failed_nodes and invokes the failure callback with its id exactly
\* once; no further failure callback is invoked for the node while it stays
\* failed.
CheckMarksFailedOnce ==
  [][\A n \in Nodes :
       /\ (ChecksNode(n) /\ TimedOut(chk.snap[n], chk.tick_now)
              /\ n \notin hb.failed_nodes)
            => /\ n \in hb'.failed_nodes
               /\ n \notin hb'.healthy_nodes
               /\ hb'.failure_events[n] = hb.failure_events[n] + 1
       /\ hb'.failure_events[n] # hb.failure_events[n]
            => /\ ChecksNode(n)
               /\ TimedOut(chk.snap[n], chk.tick_now)
               /\ n \notin hb.failed_nodes
               /\ hb'.failure_events[n] = hb.failure_events[n] + 1]_vars

\* C7 witness: a node was marked failed, recovered and was marked failed
\* again, and the running pass of the monitor has gone past it
CheckMarksFailedOnceWitness ==
  \E n \in Nodes :
     /\ hb.failure_events[n] = 2
     /\ hb.recovery_events[n] >= 1
     /\ n \in hb.failed_nodes
     /\ chk.pc = "loop"
     /\ chk.tick_now > hb.last_heartbeat[n] + failure_timeout
     /\ n \notin SeqToSet(chk.todo)

(***************************************************************************)
(* Claims about the DistributedCoordinator                                 *)
(***************************************************************************)
\* the HEALTHY registered nodes whose free space is at least file_size
CoordHealthyWithSpace(file_size) ==
  {n \in DOMAIN coord.nodes : /\ coord.nodes[n].status = "HEALTHY"
                              /\ CoordFree(coord, n) >= file_size}

\* the message of type msg_type is answered in this step
Answers(msg_type) == request.msg_type = msg_type /\ request' = NoRequest

\* C9: an UPLOAD_FILE whose replication_factor exceeds the number of HEALTHY
\* nodes with enough free space is answered with an ERROR message and leaves
\* file_locations and the node registry unchanged.
UploadWithoutCapacityFails ==
  [][( /\ Answers("UPLOAD_FILE")
       /\ request.replication_factor >
             Cardinality(CoordHealthyWithSpace(request.file_size)) )
     => /\ reply'.msg_type = "ERROR"
        /\ coord'.file_locations = coord.file_locations
        /\ coord'.nodes = coord.nodes]_vars

\* C9 witness: an upload was refused while the file was on record with two
\* holders and one registered node was HEALTHY with room, and the record is
\* still there
UploadWithoutCapacityFailsWitness ==
  /\ reply.msg_type = "ERROR"
  /\ "f1" \in DOMAIN coord.file_locations
  /\ Cardinality(coord.file_locations["f1"]) = 2
  /\ Cardinality(CoordHealthyWithSpace(1)) = 1

\* the recorded holders of file f that are HEALTHY
HealthyHolders(f) ==
  IF f \in DOMAIN coord.file_locations
  THEN {n \in coord.file_locations[f] :
          n \in DOMAIN coord.nodes /\ coord.nodes[n].status = "HEALTHY"}
  ELSE {}

\* C10: a DOWNLOAD_FILE reply names a node only if that node is a recorded
\* holder of the file and HEALTHY at that moment; for an unknown file or a
\* file without healthy holder the reply is an ERROR and names no node.
DownloadNamesHealthyHolder ==
  [][Answers("DOWNLOAD_FILE")
     => IF HealthyHolders(request.file_id) = {}
        THEN reply'.msg_type = "ERROR" /\ reply'.nodes = <<>>
        ELSE /\ reply'.msg_type = "FILE_DATA"
             /\ Len(reply'.nodes) = 1
             /\ reply'.nodes[1] \in HealthyHolders(request.file_id)]_vars

\* C10 witness: a download named a HEALTHY holder while another holder of
\* the file was FAILED
DownloadNamesHealthyHolderWitness ==
  /\ reply.msg_type = "FILE_DATA"
  /\ reply.file_id \in DOMAIN coord.file_locations
  /\ reply.nodes[1] \in coord.file_locations[reply.file_id]
  /\ coord.nodes[reply.nodes[1]].status = "HEALTHY"
  /\ \E n \in coord.file_locations[reply.file_id] : coord.nodes[n].status = "FAILED"

(***************************************************************************)
(* Claims about the loss of the last replica                               *)
(***************************************************************************)
\* the statistics of manager r without the chunk k
StatisticsWithout(r, k) ==
  GetStatistics([r EXCEPT !.chunk_locations = DictPop(@, k)])

\* C11: when the failure of node n removes the last replica of a chunk,
\* failure handling completes and the monitor pass goes on with the other
\* nodes, no re-replication is attempted for the chunk (no node's record of
\* the chunk or reservation for it changes), and the statistics keep the
\* chunk and count it as under-replicated with 0 replicas.
LastReplicaLossHandled ==
  [][\A n \in Nodes : \A k \in DOMAIN rm.chunk_locations :
       ( /\ n \notin hb.failed_nodes
         /\ hb'.failed_nodes = hb.failed_nodes \cup {n}
         /\ rm.chunk_locations[k] = {n} )
       => /\ k \in DOMAIN rm'.chunk_locations
          /\ rm'.chunk_locations[k] = {}
          /\ GetStatistics(rm').total_chunks = GetStatistics(rm).total_chunks
          /\ GetStatistics(rm').under_replicated_chunks
                = StatisticsWithout(rm', k).under_replicated_chunks + 1
          /\ GetStatistics(rm').total_replicas
                = StatisticsWithout(rm', k).total_replicas
          /\ \A m \in Nodes :
                /\ svn'[m].transfers[k[1]] = svn[m].transfers[k[1]]
                /\ (k \in DOMAIN svn'[m].active_bandwidth_usage)
                      = (k \in DOMAIN svn[m].active_bandwidth_usage)
          /\ \A m \in Nodes \ {n} :
                ~TimedOut(hb.last_heartbeat[m], now) => m \in hb'.healthy_nodes]_vars

\* C11 witness: the only holder of a chunk of a stored file has failed, the
\* chunk is still indexed with no replica, and another node was recovered
LastReplicaLossHandledWitness ==
  \E k \in DOMAIN rm.chunk_locations :
     /\ rm.chunk_locations[k] = {}
     /\ k[1] \in net.completed_transfers
     /\ GetStatistics(rm).under_replicated_chunks >= 1
     /\ hb.failed_nodes # {}
     /\ hb.total_recoveries >= 1

(***************************************************************************)
(* Claims about select_replica_nodes                                       *)
(***************************************************************************)
\* the candidates of the recorded call
SelCandidates ==
  SelectCandidates(sel.available_nodes, sel.exclude_nodes, sel.chunk_size, sel.free)

\* C12: for every strategy, select_replica_nodes returns only nodes of the
\* pool that are not excluded and whose free space is at least chunk_size,
\* and never the same node twice.
SelectionRespectsFilter ==
  sel.pc = "return"
  => /\ \A i \in DOMAIN sel.result :
           /\ sel.result[i] \in SeqToSet(sel.available_nodes)
           /\ sel.result[i] \notin sel.exclude_nodes
           /\ sel.free[sel.result[i]] >= sel.chunk_size
     /\ \A i, j \in DOMAIN sel.result : sel.result[i] = sel.result[j] => i = j

\* C12 witness: the diverse strategy chose two nodes from a pool of which
\* one node was excluded and another was too full
SelectionRespectsFilterWitness ==
  /\ sel.pc = "return"
  /\ sel.strategy = "diverse"
  /\ Len(sel.result) = 2
  /\ \E n \in SeqToSet(sel.available_nodes) : n \in sel.exclude_nodes
  /\ \E n \in SeqToSet(sel.available_nodes) :
        n \notin sel.exclude_nodes /\ sel.free[n] < sel.chunk_size

\* C13: for every strategy and every count >= 0, select_replica_nodes
\* returns exactly count nodes when at least count candidates survive the
\* filter (the empty list for count = 0) and exactly the surviving
\* candidates when fewer survive.
SelectionCount ==
  sel.pc = "return"
  => /\ sel.raised = "none"
     /\ IF Len(SelCandidates) >= sel.count
        THEN Len(sel.result) = sel.count
        ELSE sel.result = SelCandidates

\* the key of the chunk the message in flight is about
RequestKey == <<request.file_id, request.chunk_id>>

StoreWithinCapacity ==
  \A n \in DNodes : dn[n].used_storage <= DnCapacity

\* C18: a REPLICATE_CHUNK answered with success leaves the chunk on the node,
\* with the bytes and checksum of the source node's copy, and used_storage
\* grown by the chunk size.
ReplicateStoresChunk ==
  [][(/\ Answers("REPLICATE_CHUNK")
      /\ RequestKey \in DOMAIN dn[request.source_node].stored_chunks
      /\ reply'.msg_type = "SUCCESS")
       => /\ RequestKey \in DOMAIN dn'[request.to].stored_chunks
          /\ dn'[request.to].stored_chunks[RequestKey].data
               = dn[request.source_node].stored_chunks[RequestKey].data
          /\ dn'[request.to].stored_chunks[RequestKey].checksum
               = dn[request.source_node].stored_chunks[RequestKey].checksum
          /\ dn'[request.to].used_storage
               = dn[request.to].used_storage
                 + dn[request.source_node].stored_chunks[RequestKey].size]_vars

\* C15: used_storage of a StorageVirtualNode never exceeds total_storage.
UsedStorageWithinTotal ==
  \A n \in Nodes : svn[n].used_storage <= TotalStorage(n)

\* C17: retrieve_file returns None for an unknown file_id and when a stored
\* chunk's bytes do not match its checksum; otherwise it returns a transfer
\* whose chunks carry the stored data and checksums; it never changes the
\* stored files.
RetrieveVerifies ==
  [][retr'.seq # retr.seq =>
       LET f == retr'.file_id
           corrupted == \E i \in DOMAIN sfiles[f].chunks :
                           Sha256(sfiles[f].chunks[i].data) # sfiles[f].chunks[i].checksum
       IN /\ sfiles' = sfiles
          /\ f \notin DOMAIN sfiles => retr'.result.is_none
          /\ (f \in DOMAIN sfiles /\ corrupted) => retr'.result.is_none
          /\ (f \in DOMAIN sfiles /\ ~corrupted)
               => /\ ~retr'.result.is_none
                  /\ DOMAIN retr'.result.chunks = DOMAIN sfiles[f].chunks
                  /\ \A i \in DOMAIN sfiles[f].chunks :
                       /\ retr'.result.chunks[i].data = sfiles[f].chunks[i].data
                       /\ retr'.result.chunks[i].checksum = sfiles[f].chunks[i].checksum
                       /\ retr'.result.chunks[i].chunk_id = sfiles[f].chunks[i].chunk_id]_vars

RetrieveVerifiesWitness ==
  /\ retr.pc = "return"
  /\ retr.file_id \in DOMAIN sfiles
  /\ retr.result.is_none
  /\ Len(sfiles[retr.file_id].chunks) = 2
  /\ ~VerifyIntegrity(sfiles[retr.file_id].chunks[2])
  /\ VerifyIntegrity(sfiles[retr.file_id].chunks[1])

\* C19: when the node has no active transfer and no process_chunk_transfer
\* call is running, active_bandwidth_usage is empty and network_utilization
\* is 0.
NoTransferNoBandwidth ==
  (/\ svn[TestNode].active_transfers = {}
   /\ \A t \in Threads : thr[t].pc = "idle")
    => /\ DOMAIN svn[TestNode].active_bandwidth_usage = {}
       /\ svn[TestNode].network_utilization = 0

\* C20: after handle_node_failure(n) the index has the same chunks, the
\* location set of every chunk is its former set without n (so n is in no
\* set, sets that did not contain n and the other members are unchanged).
FailureRemovesOnlyNode ==
  [][(ret'.seq # ret.seq /\ ret'.op = "handle_node_failure")
     => /\ DOMAIN rm'.chunk_locations = DOMAIN rm.chunk_locations
        /\ \A k \in DOMAIN rm.chunk_locations :
             /\ ret'.node_id \notin rm'.chunk_locations[k]
             /\ rm'.chunk_locations[k] = rm.chunk_locations[k] \ {ret'.node_id}]_vars

FailureRemovesOnlyNodeWitness ==
  /\ ret.op = "handle_node_failure"
  /\ Len(ret.list) = 1
  /\ \E k \in SeqToSet(ret.list) : rm.chunk_locations[k] # {}
  /\ \E k \in DOMAIN rm.chunk_locations :
        k \notin SeqToSet(ret.list) /\ Cardinality(rm.chunk_locations[k]) >= 2

\* the chunk key of the last call on the manager
CallKey(call) == <<call.file_id, call.chunk_id>>

\* C21: a register_chunk or unregister_chunk call that repeats the call made
\* just before it leaves chunk_locations as it was, and unregister_chunk of a
\* replica that is not recorded leaves chunk_locations as it was.
IndexIdempotent ==
  [][(ret'.seq # ret.seq /\ ret'.op \in {"register_chunk", "unregister_chunk"})
     => /\ (/\ ret.op = ret'.op
            /\ CallKey(ret) = CallKey(ret')
            /\ ret.node_id = ret'.node_id)
             => rm'.chunk_locations = rm.chunk_locations
        /\ (/\ ret'.op = "unregister_chunk"
            /\ \/ CallKey(ret') \notin DOMAIN rm.chunk_locations
               \/ ret'.node_id \notin rm.chunk_locations[CallKey(ret')])
             => rm'.chunk_locations = rm.chunk_locations]_vars

IndexIdempotentWitness ==
  /\ ret.op = "register_chunk"
  /\ ret.seq = 0
  /\ CallKey(ret) \in DOMAIN rm.chunk_locations
  /\ Cardinality(rm.chunk_locations[CallKey(ret)]) = 2
  /\ \E k \in DOMAIN rm.chunk_locations : rm.chunk_locations[k] = {}

\* C22: REGISTER_NODE for a node_id that is already registered leaves every
\* node record as it was, except the last_heartbeat of that node.
ReRegisterKeepsRecord ==
  [][(Answers("REGISTER_NODE") /\ request.node_id \in DOMAIN coord.nodes)
     => /\ DOMAIN coord'.nodes = DOMAIN coord.nodes
        /\ \A n \in DOMAIN coord.nodes :
             /\ coord'.nodes[n].storage_capacity = coord.nodes[n].storage_capacity
             /\ coord'.nodes[n].used_storage = coord.nodes[n].used_storage
             /\ coord'.nodes[n].status = coord.nodes[n].status
             /\ n # request.node_id
                  => coord'.nodes[n].last_heartbeat = coord.nodes[n].last_heartbeat]_vars

\* C23: the last-heartbeat timestamp of a known node never decreases, in the
\* HeartbeatMonitor and in the DistributedCoordinator.
HeartbeatMonotonic ==
  [][/\ \A n \in DOMAIN hb.last_heartbeat :
          /\ n \in DOMAIN hb'.last_heartbeat
          /\ hb'.last_heartbeat[n] >= hb.last_heartbeat[n]
     /\ \A n \in DOMAIN coord.nodes :
          /\ n \in DOMAIN coord'.nodes
          /\ coord'.nodes[n].last_heartbeat >= coord.nodes[n].last_heartbeat]_vars

\* C24: a get_node_status query that returns while no receive_heartbeat call
\* for the node is running returns OFFLINE only if no heartbeat of the node
\* was ever recorded.
OfflineOnlyIfUnseen ==
  [][(/\ ret.op = "get_node_status"
      /\ ret.result = "testing"
      /\ ret'.result = "OFFLINE"
      /\ rh[ret.node_id] = "idle")
       => ret.node_id \notin DOMAIN hb.last_heartbeat]_vars

\* C25: when the failure or recovery callback raises, the node's transition
\* is complete (sets and counters updated) and the pass goes on with the
\* remaining nodes: every iteration takes the next node of the snapshot, a
\* timed-out node that is not failed becomes failed, and the pass ends only
\* when no node is left.
CallbackErrorContained ==
  [][/\ (ret'.seq # ret.seq /\ ret'.result = "raised")
          => /\ chk'.pc = "loop"
             /\ chk'.todo = Tail(chk.todo)
             /\ ret'.op = "on_node_failure"
                  => /\ ret'.node_id \in hb'.failed_nodes
                     /\ ret'.node_id \notin hb'.healthy_nodes
                     /\ hb'.total_failures = hb.total_failures + 1
             /\ ret'.op = "on_node_recovery"
                  => /\ ret'.node_id \in hb'.healthy_nodes
                     /\ ret'.node_id \notin hb'.failed_nodes
                     /\ hb'.total_recoveries = hb.total_recoveries + 1
     /\ (chk.pc = "loop" /\ chk' # chk)
          => \/ chk.todo = <<>> /\ chk'.pc = "idle"
             \/ /\ chk.todo # <<>>
                /\ chk' = [chk EXCEPT !.todo = Tail(chk.todo)]
                /\ (/\ TimedOut(chk.snap[Head(chk.todo)], chk.tick_now)
                    /\ Head(chk.todo) \notin hb.failed_nodes)
                     => Head(chk.todo) \in hb'.failed_nodes \ hb'.healthy_nodes]_vars

\* the failure callback raised for the first node of the pass and the pass
\* went on to examine the second node, which is healthy
CallbackErrorContainedWitness ==
  /\ chk.pc = "loop"
  /\ chk.todo = <<>>
  /\ Len(hb.known) = 2
  /\ hb.failed_nodes = {hb.known[1]}
  /\ hb.healthy_nodes = {hb.known[2]}
  /\ ret.op = "on_node_failure"
  /\ ret.result = "raised"
  /\ ret.node_id = hb.known[1]

\* C26: replication_queue holds at most one entry per (file_id, chunk_id).
QueuedOncePerChunk ==
  \A i, j \in DOMAIN rm.replication_queue :
     (/\ rm.replication_queue[i][1] = rm.replication_queue[j][1]
      /\ rm.replication_queue[i][2] = rm.replication_queue[j][2])
       => i = j

\* C27: the reply to a request that carries a request_id carries the same
\* request_id.
ReplyCarriesRequestId ==
  [][(/\ request # NoRequest
      /\ request' = NoRequest
      /\ request.request_id # "None")
       => reply'.request_id = request.request_id]_vars

\* the JSON text of a frame body: what follows its length field
FrameText(body) == SubSeq(body, 2, 1 + body[1])

\* a frame with header total and body body is a complete frame within the
\* size limit whose JSON text is a message of a known type
WellFormed(total, body) ==
  /\ total <= MaxMessageSize
  /\ Len(body) = total
  /\ total >= 1
  /\ body[1] <= total - 1
  /\ FrameText(body) \in {<<1>>, <<1, 2>>}

\* C28: no unit of the body of a frame whose header exceeds MAX_MESSAGE_SIZE
\* is read; the handler is called only with the message of a well-formed
\* frame; and when a frame turns out oversize, truncated or undecodable the
\* connection is closed.
BadFrameClosesConnection ==
  [][/\ conn'.header > MaxMessageSize
          => conn'.body = <<>> /\ conn'.pc = "closed"
     /\ conn'.handled # conn.handled
          => /\ WellFormed(conn.header, conn.body)
             /\ conn'.handled =
                  Append(conn.handled,
                         [msg_type |-> IF FrameText(conn.body) = <<1>>
                                       THEN "HEARTBEAT" ELSE "STORE_CHUNK",
                          binary_data |-> SubSeq(conn.body, 2 + conn.body[1],
                                                 Len(conn.body))])
     /\ (/\ conn.pc = "body"
         /\ conn' # conn
         /\ \/ Len(conn.body) < conn.header /\ conn.wire = <<>>
            \/ Len(conn.body) = conn.header /\ ~WellFormed(conn.header, conn.body))
          => conn'.pc = "closed" /\ conn'.handled = conn.handled
     /\ conn.pc = "closed" => conn' = conn]_vars

\* a well-formed frame was handled, then a frame with an unknown msg_type
\* closed the connection
BadFrameClosesConnectionWitness ==
  /\ conn.pc = "closed"
  /\ Len(conn.handled) = 1
  /\ conn.header = 2
  /\ conn.body = <<1, 2>>

RECURSIVE ConcatData(_)
\* the data of the chunks, one after the other
ConcatData(chunks) ==
  IF chunks = <<>> THEN <<>>
  ELSE ConcatData(SubSeq(chunks, 1, Len(chunks) - 1)) \o chunks[Len(chunks)].data

\* C29: a file of s units with chunk size c is cut into ceil(s / c) chunks
\* with ids 0, 1, ... whose data, put together, are the file; every chunk
\* but the last has c units, the last has s mod c units, or c when s is a
\* positive multiple of c; an empty file has no chunks.
ChunksPartitionFile ==
  gen.pc = "return" =>
    LET s == Len(gen.file_data)
        c == CalculateChunkSize(s)
        n == Len(gen.chunks)
    IN /\ n * c >= s
       /\ (n - 1) * c < s
       /\ s = 0 => n = 0
       /\ \A i \in 1..n :
            /\ gen.chunks[i].chunk_id = i - 1
            /\ gen.chunks[i].size = Len(gen.chunks[i].data)
            /\ i < n => gen.chunks[i].size = c
            /\ i = n => gen.chunks[i].size = IF s % c = 0 THEN c ELSE s % c
       /\ ConcatData(gen.chunks) = gen.file_data

ChunksPartitionFileWitness ==
  /\ gen.pc = "return"
  /\ Len(gen.file_data) = 42
  /\ Len(gen.chunks) = 6
  /\ gen.chunks[6].size = 2

\* C30: with strategy diverse and n >= count >= 1 candidates, the call
\* returns the candidates at positions 0, k, 2k, ..., (count - 1) * k of the
\* list sorted by descending free space, k = max(1, n div count), in that
\* order; for 5 candidates and count 3 these are positions 0, 1, 2.
DiverseEveryKth ==
  (sel.pc = "return" /\ sel.strategy = "diverse"
     /\ Len(SelCandidates) >= sel.count /\ sel.count >= 1)
  => LET sorted == SortDesc(SelCandidates, sel.free)
         k == Max(1, Len(sorted) \div sel.count)
     IN /\ sel.raised = "none"
        /\ sel.result = [i \in 1..sel.count |-> sorted[(i - 1) * k + 1]]
        /\ (Len(sorted) = 5 /\ sel.count = 3) => sel.result = SubSeq(sorted, 1, 3)

\* C30 witness: three of five candidates with different free space were
\* asked for, and the pool did not list them in sorted order
DiverseEveryKthWitness ==
  /\ sel.pc = "return"
  /\ sel.strategy = "diverse"
  /\ Len(SelCandidates) = 5
  /\ sel.count = 3
  /\ sel.result = SubSeq(SortDesc(SelCandidates, sel.free), 1, 3)
  /\ sel.result # SubSeq(SelCandidates, 1, 3)
  /\ sel.free[sel.result[1]] > sel.free[sel.result[3]]

\* C31: the replica index lists node n for chunk (f, c) only if n has
\* stored that chunk, so that every listed location can serve it.
ReplicaOnlyIfStored ==
  \A k \in DOMAIN rm.chunk_locations : \A n \in rm.chunk_locations[k] :
     /\ HasChunk(svn[n], k[1], k[2])
     /\ svn[n].transfers[k[1]].chunks[k[2] + 1].status = "COMPLETED"

\* C32: a _re_replicate_chunk call for chunk (f, c) after the failure of a
\* node asks for default_factor - |survivors| recipients among the healthy
\* nodes, gets only healthy nodes that are neither survivors nor the failed
\* node, changes the location set of no other chunk, and adds to the
\* location set of (f, c) exactly the recipients whose transfer succeeded.
ReReplicateSound ==
  [][(chk.pc = "failure" /\ chk' # chk)
     => LET f == Head(chk.todo)[1]
            c == Head(chk.todo)[2]
            failed == chk.snap[1]
            survivors == GetChunkLocations(rm, f, c)
            after == GetChunkLocations(rm', f, c)
            recipients == IF sel'.pc = "return" THEN SeqToSet(sel'.result) ELSE {}
            succeeded(n) == /\ \E src \in survivors : ProcessChunkOk(svn[n], f, c, src)
                            /\ svn'[n].transfers[f].chunks[c + 1].status = "COMPLETED"
        IN /\ sel'.pc = "return"
                => /\ sel'.count = default_factor - Cardinality(survivors)
                   /\ Len(sel'.result) <= sel'.count
           /\ \A n \in recipients :
                 n \in hb.healthy_nodes /\ n \notin survivors /\ n # failed
           /\ \A n \in Nodes : svn'[n] # svn[n] => n \in recipients
           /\ \A k \in DOMAIN rm.chunk_locations :
                 k # <<f, c>> => /\ k \in DOMAIN rm'.chunk_locations
                                 /\ rm'.chunk_locations[k] = rm.chunk_locations[k]
           /\ survivors \subseteq after
           /\ \A n \in after \ survivors : n \in recipients /\ succeeded(n)
           /\ \A n \in recipients : succeeded(n) => n \in after]_vars

\* C32 witness: of the two recipients of a re-replication one took the chunk
\* and is listed, the other refused it and is not
ReReplicateSoundWitness ==
  /\ sel.pc = "return"
  /\ Len(sel.result) = 2
  /\ \E k \in DOMAIN rm.chunk_locations :
        /\ rm.chunk_locations[k] \cap sel.exclude_nodes # {}
        /\ \E n, m \in SeqToSet(sel.result) :
              /\ n \in rm.chunk_locations[k]
              /\ svn[n].transfers[k[1]].chunks[k[2] + 1].status = "COMPLETED"
              /\ m \notin rm.chunk_locations[k]

\* C33: on every node used_storage is the sum of total_size over
\* stored_files: the completion of a file is applied once, also when its
\* chunks are processed by concurrent calls.
UsedStorageIsStoredSum ==
  \A n \in Nodes :
     svn[n].used_storage =
        SumFun([f \in Files |-> svn[n].transfers[f].total_size], svn[n].stored_files)

\* C34: in every state of the HeartbeatMonitor, whatever the interleaving of
\* the monitor thread with the heartbeat threads, no node is in both
\* healthy_nodes and failed_nodes.
HealthyFailedDisjoint == hb.healthy_nodes \cap hb.failed_nodes = {}

\* C35: the monitor marks a node FAILED, and fires the failure callback,
\* only when the node's recorded last heartbeat is older than
\* failure_timeout at that moment, also when a heartbeat arrives during the
\* pass of _check_all_nodes.
FailedOnlyIfOverdue ==
  [][\A n \in Nodes :
        (n \notin hb.failed_nodes /\ n \in hb'.failed_nodes)
        => /\ n \in DOMAIN hb.last_heartbeat
           /\ TimedOut(hb.last_heartbeat[n], now)]_vars

DnUsedIsStoredSum ==
  \A n \in DNodes :
     dn[n].used_storage =
        SumFun([k \in DOMAIN dn[n].stored_chunks |-> dn[n].stored_chunks[k].size],
               DOMAIN dn[n].stored_chunks)

\* C38: process_file_transfer moves a file to completed_transfers, and
\* reports all_complete = True, only when the transfer on every node chosen
\* for the file is COMPLETED, also when one of the nodes was removed.
CompleteOnlyIfAllNodes ==
  [][\A f \in NetFiles :
        (f \in DOMAIN net.transfer_operations /\ f \in net'.completed_transfers)
        => \A n \in net.transfer_operations[f] :
              svn'[n].transfers[f].status = "COMPLETED"]_vars

\* thread t cannot go on as long as the threads of D stay where they are
StuckOn(t, D) ==
  /\ thr[t].pc # "idle"
  /\ \A q \in Succ(thr[t].pc) :
        \E l \in Acquires(t, q), u \in D \ {t} : l \in Held(thr[u].pc)

\* C39: threads running the methods of one node never deadlock: no group
\* of threads waits for each other's locks; transfer_lock is acquired with
\* no lock in hand, storage_lock and bandwidth_lock with at most
\* transfer_lock in hand; no lock is held during the simulated transfer.
NodeLocksNoDeadlock ==
  /\ \A D \in SUBSET Threads : D # {} => \E t \in D : ~StuckOn(t, D)
  /\ \A t \in Threads : \A q \in Succ(thr[t].pc) :
        /\ "transfer_lock" \in Acquires(t, q) => Held(thr[t].pc) = {}
        /\ Acquires(t, q) # {} => Held(thr[t].pc) \subseteq {"transfer_lock"}
  /\ \A t \in Threads : thr[t].pc = "pct_sleep" => Held(thr[t].pc) = {}
  /\ \A t, u \in Threads : t # u => Held(thr[t].pc) \cap Held(thr[u].pc) = {}

\* C39 witness: a thread completing a file holds transfer_lock and
\* storage_lock while another thread waits for storage_lock in
\* initiate_file_transfer
NodeLocksNoDeadlockWitness ==
  \E t, u \in Threads :
     /\ thr[t].pc = "pct_storage"
     /\ thr[u].pc = "ift_begin"
     /\ StuckOn(u, {t})

(***************************************************************************)
(* C40 as stated: decode_message(encode_message(m, b)) yields a message    *)
(* equal to m in msg_type, data, sender_id and request_id and the binary   *)
(* data b, None when there was none, for every message and binary data;    *)
(* the first length field of the frame counts everything after it and the  *)
(* second the JSON text.                                                   *)
(***************************************************************************)
Decoded == reply # NoDecoded

RoundTrip ==
  /\ reply.raised = "none"
  /\ reply.msg_type = request.message.msg_type
  /\ reply.data = request.message.data
  /\ reply.sender_id = request.message.sender_id
  /\ reply.request_id = request.message.request_id
  /\ reply.binary_data = request.binary_data

FrameLengths ==
  /\ conn.wire[1] = Len(conn.wire) - 1
  /\ conn.wire[2] = Len(ToJson(request.message))
  /\ SubSeq(conn.wire, 3, 2 + conn.wire[2]) = ToJson(request.message)

====
